---------------------------- MODULE Spec2Model ----------------------------
(***************************************************************************)
(* A model of graph-dag (src/src/dag/context.rs, src/src/dag/adapter.rs,   *)
(* src/src/screen.rs): Context::process turns the text of a DAG into a     *)
(* grid of box-drawing characters.  One run of the model is one call of    *)
(* dag_to_text: parse, toposort, complete, build_layers (row ordering),    *)
(* resolve_crossings, layout (relaxation, bus routing, y positions) and    *)
(* render.                                                                 *)
(*                                                                         *)
(* Vectors indexed by usize (nodes, layers, the routing graph) are         *)
(* functions over 0..n-1, so that an index of the model is the index of    *)
(* the code.  Vec fields that are only pushed to and iterated (a layer's   *)
(* nodes and edges, labels as characters) are sequences.  The iteration    *)
(* order of a HashSet / HashMap is not fixed by the code (RandomState):    *)
(* wherever the code iterates over one, the model takes every order.       *)
(***************************************************************************)
EXTENDS Integers, Sequences, FiniteSets, TLC

VARIABLES
    input,      \* the text handed to dag_to_text (a sequence of characters)
    pc,         \* the position of Context::process
    labels,     \* Context.labels
    id,         \* Context.id : name -> index
    nodes,      \* Context.nodes
    layers,     \* Context.layers
    iter,       \* toposort's pass counter, then layout's relaxation counter
    ly,         \* the layer a per-layer loop is at
    perm,       \* optimize_row_order: the permutation being improved
    router,     \* Adapter::construct: the trial height, the routing graph, the next connector
    result,     \* what process returns (or how it ends)
    prev        \* the result of an earlier call with the same input

vars == <<input, pc, labels, id, nodes, layers, iter, ly, perm, router, result, prev>>

-----------------------------------------------------------------------------
(* Bounds of the model *)

\* texts over Alphabet of at most this many characters
MaxTextLen == 4
\* edge-list texts: at most this many distinct names ...
MaxNames == 4
\* ... and at most this many distinct edges (any ordered pair, self-loops included)
MaxEdges == 4
\* the deep input: a chain of DeepLen edges ...
DeepLen == 18
\* ... crossed by DeepLong nested long edges
DeepLong == 9

-----------------------------------------------------------------------------
(* Generic helpers *)

\* let v = x in f(v): x is evaluated once, whatever f does with v
Bind(x, f(_)) == CHOOSE r \in {f(v) : v \in {x}} : TRUE

Max(a, b) == IF a >= b THEN a ELSE b
Min(a, b) == IF a <= b THEN a ELSE b

SetMax(S) == Bind(S, LAMBDA T : CHOOSE x \in T : \A y \in T : y <= x)
SetMin(S) == Bind(S, LAMBDA T : CHOOSE x \in T : \A y \in T : x <= y)

Range(s) == Bind(s, LAMBDA t : {t[i] : i \in DOMAIN t})

\* the number of elements of a function 0..n-1 (a Vec)
VLen(v) == Cardinality(DOMAIN v)

\* Vec::push on a function 0..n-1
Push(v, e) == Bind(v, LAMBDA u : [i \in 0..VLen(u) |-> IF i < VLen(u) THEN u[i] ELSE e])

EmptyVec == [i \in {} |-> 0]

\* all sequences that list the set S once each: the orders a HashSet can be iterated in
RECURSIVE Orders(_)
Orders(S) ==
    IF S = {} THEN {<<>>}
    ELSE UNION {{<<x>> \o o : o \in Orders(S \ {x})} : x \in S}

\* the elements of a set of integers in increasing order
SortedSeq(S) ==
    Bind(S, LAMBDA T :
        [i \in 1..Cardinality(T) |-> CHOOSE x \in T : Cardinality({y \in T : y < x}) = i - 1])

\* slice::sort_by_key (stable) for a sequence whose keys are pairwise different
SortByKey(s, key(_)) ==
    Bind(s, LAMBDA t :
        [i \in 1..Len(t) |->
            t[CHOOSE j \in 1..Len(t) :
                Cardinality({k \in 1..Len(t) : key(t[k]) < key(t[j])}) = i - 1]])

\* for i in lo..=hi { x = body(x, i) }: the iterations in their order, the range
\* halved so that a long loop is evaluated as a shallow nest
RECURSIVE Loop(_, _, _, _)
Loop(body(_, _), x, lo, hi) ==
    IF lo > hi THEN x
    ELSE IF lo = hi THEN CHOOSE r \in {body(v, lo) : v \in {x}} : TRUE
    ELSE CHOOSE r \in {Loop(body, left, ((lo + hi) \div 2) + 1, hi) :
                         left \in {Loop(body, x, lo, (lo + hi) \div 2)}} : TRUE

Concat(ss) ==
    Bind(ss, LAMBDA tt : LET step(acc, i) == acc \o tt[i] IN Loop(step, <<>>, 1, Len(tt)))

\* the sum of f over the set S of integers
SumOver(S, f) ==
    Bind(SortedSeq(S), LAMBDA t : LET step(acc, i) == acc + f[t[i]] IN Loop(step, 0, 1, Len(t)))

\* the subsets of S with at most k elements
RECURSIVE SubsetsUpTo(_, _)
SubsetsUpTo(S, k) ==
    IF k = 0 \/ S = {} THEN {{}}
    ELSE LET x == CHOOSE y \in S : TRUE
             rest == S \ {x}
         IN SubsetsUpTo(rest, k) \cup {T \cup {x} : T \in SubsetsUpTo(rest, k - 1)}

-----------------------------------------------------------------------------
(* Text: str::split, str::trim *)

\* the characters with the Unicode property White_Space, which str::trim removes; those
\* that have no escape in a string are written by their code point
WhiteSpace ==
    {" ", "\t", "\n", "\f", "\r", "U+000B", "U+0085", "U+00A0", "U+1680", "U+2000",
     "U+2001", "U+2002", "U+2003", "U+2004", "U+2005", "U+2006", "U+2007", "U+2008",
     "U+2009", "U+200A", "U+2028", "U+2029", "U+202F", "U+205F", "U+3000"}

\* char::is_whitespace
IsSpace(c) == c \in WhiteSpace

\* does pat occur in s at position i
MatchAt(s, pat, i) ==
    /\ i + Len(pat) - 1 <= Len(s)
    /\ \A k \in 1..Len(pat) : s[i + k - 1] = pat[k]

\* str::split(pat): the pieces between the non-overlapping matches, left to right
StrSplit(s, pat) ==
    LET cut(t) ==
            LET step(st, i) ==
                    IF i >= st.start /\ MatchAt(t, pat, i)
                    THEN [pieces |-> Append(st.pieces, SubSeq(t, st.start, i - 1)),
                          start |-> i + Len(pat)]
                    ELSE st
            IN Bind(Loop(step, [pieces |-> <<>>, start |-> 1], 1, Len(t)),
                    LAMBDA end : Append(end.pieces, SubSeq(t, end.start, Len(t))))
    IN Bind(s, cut)

\* parse's local fn split: s.split(pat).filter(|x| !x.is_empty())
split(s, pat) == SelectSeq(StrSplit(s, pat), LAMBDA x : x # <<>>)

\* str::trim
trim(s) ==
    LET kept(t, keep) == IF keep = {} THEN <<>> ELSE SubSeq(t, SetMin(keep), SetMax(keep))
    IN Bind(s, LAMBDA t : Bind({i \in 1..Len(t) : ~IsSpace(t[i])}, LAMBDA keep : kept(t, keep)))

-----------------------------------------------------------------------------
(* Graph registry: Node, add_node, add_vertex, add_connector *)

\* Node { ..Default::default() }
DefaultNode ==
    [upward |-> {}, downward |-> {}, is_connector |-> FALSE, padding |-> 0,
     layer |-> 0, row |-> 0, downward_closure |-> {},
     upward_sorted |-> <<>>, downward_sorted |-> <<>>,
     width |-> 0, height |-> 0, x |-> 0, y |-> 0]

\* a Context, as far as the registry goes
EmptyCtx == [labels |-> EmptyVec, id |-> EmptyVec, nodes |-> EmptyVec]

\* an insertion that does not look the name up
add_node_again(ctx, name) ==
    LET idx == VLen(ctx.nodes)
    IN [labels |-> Push(ctx.labels, name),
        id     |-> [k \in DOMAIN ctx.id \cup {name} |->
                       IF k = name THEN idx ELSE ctx.id[k]],
        nodes  |-> Push(ctx.nodes, [DefaultNode EXCEPT !.padding = 1])]

\* Context::add_node
add_node(ctx, name) ==
    IF name \in DOMAIN ctx.id THEN ctx
    ELSE LET idx == VLen(ctx.nodes)
         IN [labels |-> Push(ctx.labels, name),
             id     |-> [k \in DOMAIN ctx.id \cup {name} |->
                            IF k = name THEN idx ELSE ctx.id[k]],
             nodes  |-> Push(ctx.nodes, [DefaultNode EXCEPT !.padding = 1])]

add_vertex(ctx, a, b) ==
    LET ia == ctx.id[a]
        ib == ctx.id[b]
        n1 == [ctx.nodes EXCEPT ![ia].downward = @ \cup {ib}]
    IN [ctx EXCEPT !.nodes = [n1 EXCEPT ![ib].upward = @ \cup {ia}]]

\* The connector name pushed to labels
ConnectorLabel == <<"c","o","n","n","e","c","t","o","r">>

\* a splice that does not tell the connector where it comes from
add_connector_no_upward(ctx, a, b) ==
    LET c  == VLen(ctx.nodes)
        n0 == Push(ctx.nodes, [DefaultNode EXCEPT !.is_connector = TRUE,
                                                  !.padding = 0,
                                                  !.layer = ctx.nodes[a].layer + 1])
        n1 == [n0 EXCEPT ![a].downward = (@ \ {b}) \cup {c}]
        n2 == [n1 EXCEPT ![b].upward = (@ \ {a}) \cup {c}]
        n3 == [n2 EXCEPT ![c].downward = @ \cup {b}]
    IN [ctx EXCEPT !.labels = Push(ctx.labels, ConnectorLabel), !.nodes = n3]

\* Context::add_connector
add_connector(ctx, a, b) ==
    LET c  == VLen(ctx.nodes)
        n0 == Push(ctx.nodes, [DefaultNode EXCEPT !.is_connector = TRUE,
                                                  !.padding = 0,
                                                  !.layer = ctx.nodes[a].layer + 1])
        n1 == [n0 EXCEPT ![a].downward = @ \ {b}]
        n2 == [n1 EXCEPT ![b].upward = @ \ {a}]
        n3 == [n2 EXCEPT ![a].downward = @ \cup {c}]
        n4 == [n3 EXCEPT ![c].upward = @ \cup {a}]
        n5 == [n4 EXCEPT ![c].downward = @ \cup {b}]
        n6 == [n5 EXCEPT ![b].upward = @ \cup {c}]
    IN [ctx EXCEPT !.labels = Push(ctx.labels, ConnectorLabel), !.nodes = n6]

\* a registry that never counts as empty
is_empty_never(ctx) == FALSE

\* is_empty: self.nodes.is_empty()
is_empty(ctx) == VLen(ctx.nodes) = 0

-----------------------------------------------------------------------------
(* Context::parse *)

\* the body of the inner loop of parse, for one part; prev is <<>> for None
parse_part(st, part) ==
    LET name == trim(part)
        c1 == add_node(st.ctx, name)
    IN IF name = <<>> THEN st
       ELSE [ctx |-> IF st.prev # <<>> THEN add_vertex(c1, st.prev, name) ELSE c1,
             prev |-> name]

\* the inner loop of parse over the parts of one line
parse_parts(ctx, parts) ==
    LET step(st, i) == parse_part(st, parts[i])
    IN Loop(step, [ctx |-> ctx, prev |-> <<>>], 1, Len(parts)).ctx

\* the body of the loop over the lines
parse_line(ctx, raw) ==
    LET parts_of(line) == Bind(split(line, <<"-", ">">>), LAMBDA parts : parse_parts(ctx, parts))
    IN Bind(trim(raw), LAMBDA line : IF line = <<>> THEN ctx ELSE parts_of(line))

parse_lines(ctx, lines) ==
    LET step(c, i) == parse_line(c, lines[i]) IN Loop(step, ctx, 1, Len(lines))

parse(ctx, text) == Bind(split(text, <<"\n">>), LAMBDA lines : parse_lines(ctx, lines))

-----------------------------------------------------------------------------
(* Context::toposort, one pass of its while loop *)

\* a comparison that lets equal layers stand
toposort_edge_strict(st, a, b) ==
    IF st.nodes[b].layer < st.nodes[a].layer
    THEN [nodes |-> [st.nodes EXCEPT ![b].layer = st.nodes[a].layer + 1], changed |-> TRUE]
    ELSE st

\* the body of the inner for loop: b is below a
toposort_edge(st, a, b) ==
    IF st.nodes[b].layer <= st.nodes[a].layer
    THEN [nodes |-> [st.nodes EXCEPT ![b].layer = st.nodes[a].layer + 1], changed |-> TRUE]
    ELSE st

\* a visit that looks at the first downward neighbour only
toposort_visit_first(st, a, o) ==
    IF Len(o) = 0 THEN st ELSE toposort_edge(st, a, o[1])

\* the inner for loop over a's downward set, iterated in the order o
toposort_visit(st, a, o) ==
    LET step(t, i) == toposort_edge(t, a, o[i]) IN Loop(step, st, 1, Len(o))

\* for a in 0..nodes.len(): every result the iteration orders of the sets allow
toposort_pass(ns) ==
    LET step(S, a) ==
            UNION {{toposort_visit(st, a, o) : o \in Orders(ns[a].downward)} : st \in S}
    IN Loop(step, {[nodes |-> ns, changed |-> FALSE]}, 0, VLen(ns) - 1)

\* a bound that is one pass short
toposort_gives_up_early(it, ns) == it >= VLen(ns) * VLen(ns)

\* iter > nodes.len() * nodes.len()
toposort_gives_up(it, ns) == it > VLen(ns) * VLen(ns)

-----------------------------------------------------------------------------
(* Context::complete, one round of its loop *)

\* a completion that lets an edge over two layers stand
complete_mismatch_lax(ns, a) == {b \in ns[a].downward : ns[a].layer + 2 < ns[b].layer}

\* the edges of a that complete splices: layer_a + 1 != layer(b)
complete_mismatch(ns, a) == {b \in ns[a].downward : ns[a].layer + 1 # ns[b].layer}

\* the body of the for loop for the node a: the first mismatching b of a's iteration
\* order gets a connector, then the inner loop breaks
complete_node(st, a) ==
    IF complete_mismatch(st.ctx.nodes, a) = {} THEN {st}
    ELSE {[ctx |-> add_connector(st.ctx, a, b), again |-> TRUE] :
            b \in complete_mismatch(st.ctx.nodes, a)}

\* for a in 0..nodes.len() (the length when the for loop starts): every result the
\* iteration orders of the sets allow
complete_pass(ctx) ==
    LET step(S, a) == UNION {complete_node(st, a) : st \in S}
    IN Loop(step, {[ctx |-> ctx, again |-> FALSE]}, 0, VLen(ctx.nodes) - 1)

-----------------------------------------------------------------------------
(* Context::build_layers and Context::optimize_row_order *)

\* Adapter::default()
DefaultAdapter ==
    [enabled |-> FALSE, inputs |-> EmptyVec, outputs |-> EmptyVec,
     height |-> 0, y |-> 0, rendering |-> EmptyVec]

\* Layer::default()
DefaultLayer == [nodes |-> <<>>, edges |-> <<>>, adapter |-> DefaultAdapter]

\* layers.resize_with(last_layer + 1, ..); layers[n.layer].nodes.push(i) in index order
group_by_layer(ns) ==
    LET last_layer == IF VLen(ns) = 0 THEN 0 ELSE SetMax({ns[i].layer : i \in DOMAIN ns})
    IN [l \in 0..last_layer |->
            [DefaultLayer EXCEPT !.nodes = SortedSeq({i \in DOMAIN ns : ns[i].layer = l})]]

\* the closure of one vertex: its downward neighbours and their closures
closure_of(ns, up) ==
    UNION {{d} \cup ns[d].downward_closure : d \in ns[up].downward}

\* for &up in &layers[y].nodes
closure_layer(ns, ups) ==
    LET step(acc, i) == [acc EXCEPT ![ups[i]].downward_closure = closure_of(acc, ups[i])]
    IN Loop(step, ns, 1, Len(ups))

\* for y in (0..layers.len().saturating_sub(1)).rev()
downward_closures(ns, lys) ==
    LET step(acc, k) == closure_layer(acc, lys[VLen(lys) - 1 - k].nodes)
    IN Loop(step, ns, 1, VLen(lys) - 1)

\* ---- f32 arithmetic ----
\* An f32 is kept as [neg, m, e]: the value is m * 2^e, negated when neg, with m = 0 for
\* zero and 2^23 <= m < 2^24 otherwise.  Every operation rounds to the nearest value of
\* that form, ties to the even mantissa, as the IEEE 754 operations of the build do.  The
\* exponent is not bounded: the scores stay far from the overflow and subnormal ranges.
MantBits == 24

Pow2(k) == 2 ^ k

\* the number of binary digits of n >= 0
BitLen(n) ==
    Bind(n, LAMBDA v : IF v = 0 THEN 0 ELSE CHOOSE k \in 1..30 : Pow2(k - 1) <= v /\ v < Pow2(k))

F32Zero == [neg |-> FALSE, m |-> 0, e |-> 0]

\* the f32 nearest to (s + f) * 2^e, where 0 <= s < 2^30 and 0 < f < 1 when sticky, f = 0
\* otherwise
f32_round(neg, s, sticky, e) ==
    IF s = 0 THEN F32Zero
    ELSE Bind(BitLen(s) - MantBits, LAMBDA k :
             IF k <= 0 THEN [neg |-> neg, m |-> s * Pow2(-k), e |-> e + k]
             ELSE LET q == s \div Pow2(k)
                      r == s % Pow2(k)
                      half == Pow2(k - 1)
                      up == r > half \/ (r = half /\ (sticky \/ q % 2 = 1))
                      m == IF up THEN q + 1 ELSE q
                  IN IF m = Pow2(MantBits)
                     THEN [neg |-> neg, m |-> Pow2(MantBits - 1), e |-> e + k + 1]
                     ELSE [neg |-> neg, m |-> m, e |-> e + k])

\* n as f32, for a usize n < 2^30
f32_from(n) == Bind(n, LAMBDA v : f32_round(FALSE, v, FALSE, 0))

\* |x| < |y|
f32_mag_less(x, y) ==
    IF y.m = 0 THEN FALSE
    ELSE IF x.m = 0 THEN TRUE
    ELSE x.e < y.e \/ (x.e = y.e /\ x.m < y.m)

\* x < y
f32_less(x, y) ==
    IF x.m = 0 /\ y.m = 0 THEN FALSE
    ELSE IF x.neg /\ ~y.neg THEN TRUE
    ELSE IF ~x.neg /\ y.neg THEN FALSE
    ELSE IF x.neg THEN f32_mag_less(y, x)
    ELSE f32_mag_less(x, y)

\* x + y for |x| >= |y| > 0: y is aligned to three digits below the last digit of x, the
\* digits of y below that are kept as one sticky digit
f32_add_ordered(x, y) ==
    LET d == x.e - y.e
    IN IF d > MantBits + 2 THEN x
       ELSE LET big_m == x.m * 8
                small_m == (y.m * 8) \div Pow2(d)
                sticky == (y.m * 8) % Pow2(d) # 0
                sum == IF x.neg = y.neg THEN big_m + small_m
                       ELSE IF sticky THEN big_m - small_m - 1
                       ELSE big_m - small_m
            IN Bind(sum, LAMBDA s : f32_round(x.neg, s, sticky, x.e - 3))

\* x + y
f32_add(x, y) ==
    IF y.m = 0 THEN x
    ELSE IF x.m = 0 THEN y
    ELSE IF f32_mag_less(x, y) THEN f32_add_ordered(y, x)
    ELSE f32_add_ordered(x, y)

\* x - y
f32_sub(x, y) == f32_add(x, [y EXCEPT !.neg = ~y.neg])

\* x * y: the 48 digits of the product of the mantissas in two halves hi, lo
f32_mul(x, y) ==
    IF x.m = 0 \/ y.m = 0 THEN F32Zero
    ELSE LET limb == Pow2(12)
             x1 == x.m \div limb
             x0 == x.m % limb
             y1 == y.m \div limb
             y0 == y.m % limb
             mid == x1 * y0 + x0 * y1
             low == x0 * y0 + (mid % limb) * limb
             lo == low % Pow2(MantBits)
             hi == x1 * y1 + mid \div limb + low \div Pow2(MantBits)
             neg == x.neg # y.neg
             top(k) == Bind(hi * Pow2(MantBits - k) + lo \div Pow2(k), LAMBDA s :
                           f32_round(neg, s, lo % Pow2(k) # 0, x.e + y.e + k))
         IN IF hi >= Pow2(MantBits - 1) THEN top(MantBits - 1) ELSE top(MantBits - 2)

\* x / y for y # 0: 26 digits of the quotient of the mantissas by long division, the
\* remainder kept as the sticky digit
f32_div(x, y) ==
    IF x.m = 0 THEN F32Zero
    ELSE LET digit(st, i) ==
                 IF 2 * st.r >= y.m THEN [q |-> 2 * st.q + 1, r |-> 2 * st.r - y.m]
                 ELSE [q |-> 2 * st.q, r |-> 2 * st.r]
             whole == [q |-> x.m \div y.m, r |-> x.m % y.m]
         IN Bind(Loop(digit, whole, 1, MantBits + 1), LAMBDA res :
                f32_round(x.neg # y.neg, res.q, res.r # 0, x.e - y.e - (MantBits + 1)))

\* the literal 0.01 as f32: 0x3C23D70A
F32Hundredth == [neg |-> FALSE, m |-> 10737418, e |-> -30]

\* the literal 15.0 as f32
ScoreWeight == [neg |-> FALSE, m |-> 15 * Pow2(MantBits - 4), e |-> 4 - MantBits]

\* parent_mean[i] = sum as f32 / (upward.len() as f32 + 0.01)
parent_mean(ns, n) ==
    Bind(f32_from(SumOver(ns[n].upward, [p \in ns[n].upward |-> ns[p].row])), LAMBDA sum :
    Bind(f32_from(Cardinality(ns[n].upward)), LAMBDA len :
    Bind(f32_add(len, F32Hundredth), LAMBDA den : f32_div(sum, den))))

\* big = nodes.len() * 2
big(ns) == VLen(ns) * 2

\* dist[a][b] for the vertices na, nb of one layer
dist(ns, na, nb) ==
    LET common == ns[na].downward_closure \cap ns[nb].downward_closure
    IN IF common = {} THEN big(ns)
       ELSE Min(big(ns), SetMin({ns[c].layer - ns[na].layer : c \in common}))

\* the first loop of score: s += dist[perm[i]][perm[i + 1]] as f32
score_dist(ns, lnodes, p) ==
    LET add(s, i) ==
            Bind(f32_from(dist(ns, lnodes[p[i] + 1], lnodes[p[i + 1] + 1])),
                 LAMBDA d : f32_add(s, d))
    IN Loop(add, F32Zero, 0, VLen(p) - 2)

\* the score closure: the second loop adds d * d * 15.0 for d = i as f32 -
\* parent_mean[perm[i]] to the sum of the first, one position after the other
score(ns, lnodes, p) ==
    LET add(s, i) ==
            Bind(parent_mean(ns, lnodes[p[i] + 1]), LAMBDA mean :
            Bind(f32_sub(f32_from(i), mean), LAMBDA d :
            Bind(f32_mul(d, d), LAMBDA dd :
            Bind(f32_mul(dd, ScoreWeight), LAMBDA term : f32_add(s, term)))))
    IN Bind(score_dist(ns, lnodes, p), LAMBDA s0 : Loop(add, s0, 0, VLen(p) - 1))

\* ns < current, where current is the score of p and ns the score of q
score_less(ns, lnodes, q, p) ==
    Bind(score(ns, lnodes, q), LAMBDA new_score :
    Bind(score(ns, lnodes, p), LAMBDA current : f32_less(new_score, current)))

\* perm.swap(a, b)
swap(p, a, b) == [p EXCEPT ![a] = p[b], ![b] = p[a]]

\* the pairs of the first position only
sweep_pairs_first(w) == [i \in 1..(w - 1) |-> <<0, i>>]

\* the pairs a < b in the order of the two nested for loops
sweep_pairs(w) ==
    Bind(SortedSeq({k \in 0..(w * w - 1) : k \div w < k % w}),
         LAMBDA keys : [i \in 1..Len(keys) |-> <<keys[i] \div w, keys[i] % w>>])

\* a search that never keeps a swap
try_swap_never(ns, lnodes, st, a, b) == st

\* the body of the two nested for loops: perm.swap(a, b), kept when the score is less
try_swap(ns, lnodes, st, a, b) ==
    IF score_less(ns, lnodes, swap(st.perm, a, b), st.perm)
    THEN [perm |-> swap(st.perm, a, b), improved |-> TRUE]
    ELSE st

\* one run of the two nested for loops of the swap-improve search
sweep(ns, lnodes, p) ==
    LET run(pairs) ==
            LET step(st, i) == try_swap(ns, lnodes, st, pairs[i][1], pairs[i][2])
            IN Loop(step, [perm |-> p, improved |-> FALSE], 1, Len(pairs))
    IN Bind(sweep_pairs(VLen(p)), run)

\* (0..w).collect()
identity_perm(w) == [i \in 0..(w - 1) |-> i]

\* apply order: layer.nodes = perm.map(|i| layer.nodes[i])
apply_order(lnodes, p) == [i \in 1..Len(lnodes) |-> lnodes[p[i - 1] + 1]]

\* rows counted from 1
assign_rows_from_one(ns, lnodes) ==
    [n \in DOMAIN ns |->
        IF \E i \in 1..Len(lnodes) : lnodes[i] = n
        THEN [ns[n] EXCEPT !.row = CHOOSE i \in 1..Len(lnodes) : lnodes[i] = n]
        ELSE ns[n]]

\* row field: nodes[n].row = i for (i, n) in layer.nodes.enumerate()
assign_rows(ns, lnodes) ==
    [n \in DOMAIN ns |->
        IF \E i \in 1..Len(lnodes) : lnodes[i] = n
        THEN [ns[n] EXCEPT !.row = (CHOOSE i \in 1..Len(lnodes) : lnodes[i] = n) - 1]
        ELSE ns[n]]

\* sort adj lists: the adjacency sets sorted by the row of the neighbour
sort_adj(ns) ==
    [n \in DOMAIN ns |->
        [ns[n] EXCEPT
            !.upward_sorted = SortByKey(SortedSeq(ns[n].upward), LAMBDA i : ns[i].row),
            !.downward_sorted = SortByKey(SortedSeq(ns[n].downward), LAMBDA i : ns[i].row)]]

\* Edge { up, down, x: 0, y: 0 }
NewEdge(up, down) == [up |-> up, down |-> down, x |-> 0, y |-> 0]

\* fill edges: for up in layer.nodes, for down in nodes[up].downward_sorted
fill_edges(ns, lys) ==
    [l \in DOMAIN lys |->
        [lys[l] EXCEPT !.edges =
            lys[l].edges \o
            Concat([i \in 1..Len(lys[l].nodes) |->
                      [j \in 1..Len(ns[lys[l].nodes[i]].downward_sorted) |->
                          NewEdge(lys[l].nodes[i], ns[lys[l].nodes[i]].downward_sorted[j])]])]]

-----------------------------------------------------------------------------
(* Context::resolve_crossings *)

\* up: edges sorted by (row of e.up, row of e.down)
edges_by_parent(ns, es) ==
    SortByKey(es, LAMBDA e : ns[e.up].row * (VLen(ns) + 1) + ns[e.down].row)

\* edges sorted by the child row from the last to the first
edges_by_child_reversed(ns, es) ==
    SortByKey(es, LAMBDA e : (VLen(ns) - ns[e.down].row) * (VLen(ns) + 1) + ns[e.up].row)

\* down: edges sorted by (row of e.down, row of e.up)
edges_by_child(ns, es) ==
    SortByKey(es, LAMBDA e : ns[e.down].row * (VLen(ns) + 1) + ns[e.up].row)

\* the comparison turned round: up == down
has_crossing_inverted(ns, es) == edges_by_parent(ns, es) = edges_by_child(ns, es)

\* up != down
has_crossing(ns, es) == edges_by_parent(ns, es) # edges_by_child(ns, es)

\* a bus is enabled but the direct edges are kept
resolve_crossings_keeps_edges(ns, lys) ==
    [l \in DOMAIN lys |->
        IF has_crossing(ns, lys[l].edges)
        THEN [lys[l] EXCEPT !.adapter.enabled = TRUE]
        ELSE lys[l]]

\* Context::resolve_crossings
resolve_crossings(ns, lys) ==
    [l \in DOMAIN lys |->
        IF has_crossing(ns, lys[l].edges)
        THEN [lys[l] EXCEPT !.edges = <<>>, !.adapter.enabled = TRUE]
        ELSE lys[l]]

-----------------------------------------------------------------------------
(* Context::layout: initial sizes and the relaxation passes *)

\* for _ in 0..1000
RelaxBound == 1000

\* the sizing without the margin of two spaces
initial_width_tight(chars, ups, downs) ==
    LET w0 == Max(Max(chars, ups), downs)
        w2 == IF w0 % 2 # chars % 2 THEN w0 + 1 ELSE w0
    IN w2 + 2

\* the width of a vertex that is no connector, from its label and its degrees
initial_width(chars, ups, downs) ==
    LET w0 == Max(Max(chars, ups), downs)
        \* add at least 2 spaces as margin
        w1 == IF w0 - chars < 2 THEN chars + 2 ELSE w0
        \* width and chars should have the same parity, for centering
        w2 == IF w1 % 2 # chars % 2 THEN w1 + 1 ELSE w1
    \* additional 2 width for border
    IN w2 + 2

\* a sizing from the label alone
initial_sizes_label(ns, lbls) ==
    [i \in DOMAIN ns |->
        [ns[i] EXCEPT
            !.width = IF ns[i].is_connector THEN 1 ELSE initial_width(Len(lbls[i]), 0, 0),
            !.height = 3]]

\* Context::layout: the sizes of the nodes
initial_sizes(ns, lbls) ==
    [i \in DOMAIN ns |->
        [ns[i] EXCEPT
            !.width = IF ns[i].is_connector THEN 1
                      ELSE initial_width(Len(lbls[i]), Cardinality(ns[i].upward),
                                         Cardinality(ns[i].downward)),
            !.height = 3]]

\* a layout state and what a pass answers (true: nothing changed)
Pass(ns, lys, stable) == [nodes |-> ns, layers |-> lys, stable |-> stable]

\* the body of the inner loop of layout_nodes_do_not_touch, for the node n
push_right(st, n) ==
    IF st.nodes[n].x < st.x
    THEN [nodes |-> [st.nodes EXCEPT ![n].x = st.x], x |-> st.x + st.nodes[n].width,
          stable |-> FALSE]
    ELSE [st EXCEPT !.x = st.nodes[n].x + st.nodes[n].width]

\* the body of the outer loop, for one layer: let mut x = 0, then the inner loop
nodes_do_not_touch_in(st, lnodes) ==
    LET step(t, i) == push_right(t, lnodes[i]) IN Loop(step, [st EXCEPT !.x = 0], 1, Len(lnodes))

layout_nodes_do_not_touch(ns, lys) ==
    LET step(st, l) == nodes_do_not_touch_in(st, lys[l].nodes)
    IN Bind(Loop(step, [nodes |-> ns, x |-> 0, stable |-> TRUE], 0, VLen(lys) - 1),
            LAMBDA end : Pass(end.nodes, lys, end.stable))

layout_edges_do_not_touch(ns, lys) == layout_nodes_do_not_touch(ns, lys)

\* the places <<layer, edge, end>> (end 0: edge.up, 1: edge.down) of the nested loops
EdgeEnds(lys) ==
    UNION {{<<l, i, k>> : i \in 1..Len(lys[l].edges), k \in {0, 1}} : l \in DOMAIN lys}

\* the first of a set of places in the order of the loops
FirstPlace(S) ==
    Bind(S, LAMBDA T :
        CHOOSE t \in T : \A u \in T :
            \/ t[1] < u[1]
            \/ t[1] = u[1] /\ t[2] < u[2]
            \/ t[1] = u[1] /\ t[2] = u[2] /\ t[3] <= u[3])

EndNode(lys, t) == IF t[3] = 0 THEN lys[t[1]].edges[t[2]].up ELSE lys[t[1]].edges[t[2]].down

\* a growth that does not keep the parity of the width
grown_width_no_parity(width, x, ex) == ex + 1 + 1 - x

\* the new width of a node at x that has to reach the edge at ex
grown_width(width, x, ex) ==
    LET w == ex + 1 + 1 - x
    IN IF width % 2 # w % 2 THEN w + 1 ELSE w

\* the node of the place t grows to reach the edge of t
grow_node(ns, lys, t) ==
    [ns EXCEPT ![EndNode(lys, t)].width =
        grown_width(ns[EndNode(lys, t)].width, ns[EndNode(lys, t)].x, lys[t[1]].edges[t[2]].x)]

\* a grow pass that widens connectors too
layout_grow_nodes_connectors(ns, lys) ==
    LET short == {t \in EdgeEnds(lys) :
                    LET node == ns[EndNode(lys, t)]
                    IN node.x + node.width - 1 - 1 < lys[t[1]].edges[t[2]].x}
    IN Bind(short, LAMBDA S :
            IF S = {} THEN Pass(ns, lys, TRUE)
            ELSE Bind(FirstPlace(S), LAMBDA t : Pass(grow_node(ns, lys, t), lys, FALSE)))

\* Context::layout_grow_nodes: the first node that does not reach one of its edges grows
layout_grow_nodes(ns, lys) ==
    LET short == {t \in EdgeEnds(lys) :
                    LET node == ns[EndNode(lys, t)]
                    IN node.x + node.width - 1 - 1 < lys[t[1]].edges[t[2]].x
                       /\ ~node.is_connector}
    IN Bind(short, LAMBDA S :
            IF S = {} THEN Pass(ns, lys, TRUE)
            ELSE Bind(FirstPlace(S), LAMBDA t : Pass(grow_node(ns, lys, t), lys, FALSE)))

\* max(up.x + up.padding, down.x + down.padding)
edge_minx(ns, e) == Max(ns[e.up].x + ns[e.up].padding, ns[e.down].x + ns[e.down].padding)

\* a shift of an edge that does not report it
layout_shift_edges_quiet(ns, lys) ==
    LET left == {t \in EdgeEnds(lys) :
                    t[3] = 0 /\ lys[t[1]].edges[t[2]].x < edge_minx(ns, lys[t[1]].edges[t[2]])}
    IN Bind(left, LAMBDA S :
            IF S = {} THEN Pass(ns, lys, TRUE)
            ELSE Bind(FirstPlace(S), LAMBDA t :
                    Pass(ns, [lys EXCEPT ![t[1]].edges[t[2]].x =
                                            edge_minx(ns, lys[t[1]].edges[t[2]])], TRUE)))

\* Context::layout_shift_edges: the first edge left of its minx moves there
layout_shift_edges(ns, lys) ==
    LET left == {t \in EdgeEnds(lys) :
                    t[3] = 0 /\ lys[t[1]].edges[t[2]].x < edge_minx(ns, lys[t[1]].edges[t[2]])}
    IN Bind(left, LAMBDA S :
            IF S = {} THEN Pass(ns, lys, TRUE)
            ELSE Bind(FirstPlace(S), LAMBDA t :
                    Pass(ns, [lys EXCEPT ![t[1]].edges[t[2]].x =
                                            edge_minx(ns, lys[t[1]].edges[t[2]])], FALSE)))

\* the largest x of an edge that ends in connector i from above
connector_minx_above(ns, lys, i) ==
    LET layer == ns[i].layer
        above == {lys[layer - 1].edges[k].x : k \in {j \in 1..Len(lys[layer - 1].edges) :
                                                        lys[layer - 1].edges[j].down = i}}
    IN SetMax({0} \cup above)

\* the largest x of an edge that ends in connector i from above or leaves it below
connector_minx(ns, lys, i) ==
    LET layer == ns[i].layer
        above == {lys[layer - 1].edges[k].x : k \in {j \in 1..Len(lys[layer - 1].edges) :
                                                        lys[layer - 1].edges[j].down = i}}
        below == {lys[layer].edges[k].x : k \in {j \in 1..Len(lys[layer].edges) :
                                                        lys[layer].edges[j].up = i}}
    IN SetMax({0} \cup above \cup below)

layout_shift_connector_nodes(ns, lys) ==
    LET left == {i \in DOMAIN ns : ns[i].is_connector /\ ns[i].x < connector_minx(ns, lys, i)}
    IN Bind(left, LAMBDA S :
            IF S = {} THEN Pass(ns, lys, TRUE)
            ELSE Bind(SetMin(S), LAMBDA i :
                    Pass([ns EXCEPT ![i].x = connector_minx(ns, lys, i)], lys, FALSE)))

\* the k-th operand of the && chain of the relaxation loop
relax_pass(k, ns, lys) ==
    CASE k = 1 -> layout_nodes_do_not_touch(ns, lys)
      [] k = 2 -> layout_edges_do_not_touch(ns, lys)
      [] k = 3 -> layout_grow_nodes(ns, lys)
      [] k = 4 -> layout_shift_edges(ns, lys)
      [] k = 5 -> layout_shift_connector_nodes(ns, lys)

\* one iteration of the relaxation loop: the && chain stops at the first pass that
\* changed something
relax_round(ns, lys) ==
    LET step(st, k) == IF st.stable THEN relax_pass(k, st.nodes, st.layers) ELSE st
    IN Loop(step, Pass(ns, lys, TRUE), 1, 5)

-----------------------------------------------------------------------------
(* Context::layout: adapters input/output sets *)

\* the columns a node offers to its connections: x + padding .. x + width - padding
span(n) == (n.x + n.padding)..(n.x + n.width - n.padding - 1)

\* the width of the bus between the layers up and down
adapter_width(ns, up, down) ==
    SetMax({0} \cup {ns[n].x + ns[n].width : n \in Range(up.nodes) \cup Range(down.nodes)})

\* get_id for the pairs of ps in turn: a pair that has no id yet gets the next one
get_id(map, pair) ==
    IF pair \in DOMAIN map THEN map
    ELSE [k \in DOMAIN map \cup {pair} |->
            IF k = pair THEN Cardinality(DOMAIN map) + 1 ELSE map[k]]

get_ids(map, ps) == LET step(m, i) == get_id(m, ps[i]) IN Loop(step, map, 1, Len(ps))

\* the id maps after the loop over the nodes of the upper layer (from = TRUE) or of the
\* lower layer: a node with a column asks for the ids of its pairs in the iteration
\* order of its adjacency set
id_maps_node(ns, maps, n, from) ==
    LET others == IF from THEN ns[n].downward ELSE ns[n].upward
    IN IF span(ns[n]) = {} THEN maps
       ELSE {get_ids(m, [i \in 1..Len(o) |-> IF from THEN <<n, o[i]>> ELSE <<o[i], n>>]) :
               m \in maps, o \in Orders(others)}

id_maps(ns, maps, lnodes, from) ==
    LET step(ms, i) == id_maps_node(ns, ms, lnodes[i], from)
    IN Loop(step, maps, 1, Len(lnodes))

\* inputs[x]: the ids of the pairs (a, b) of a node a of the upper layer over column x
adapter_inputs(ns, up, width, map) ==
    [x \in 0..(width - 1) |->
        {map[<<a, b>>] : <<a, b>> \in {p \in DOMAIN map :
                                          p[1] \in Range(up.nodes) /\ x \in span(ns[p[1]])
                                          /\ p[2] \in ns[p[1]].downward}}]

\* outputs[x]: the ids of the pairs (a, b) of a node b of the lower layer over column x
adapter_outputs(ns, down, width, map) ==
    [x \in 0..(width - 1) |->
        {map[<<a, b>>] : <<a, b>> \in {p \in DOMAIN map :
                                          p[2] \in Range(down.nodes) /\ x \in span(ns[p[2]])
                                          /\ p[1] \in ns[p[2]].upward}}]

\* the adapters layout can hand to construct for the layer y
adapter_ios(ns, lys, y) ==
    LET up == lys[y]
        down == lys[y + 1]
        width == adapter_width(ns, up, down)
        maps == id_maps(ns, id_maps(ns, {EmptyVec}, up.nodes, TRUE), down.nodes, FALSE)
    IN {[lys[y].adapter EXCEPT !.inputs = adapter_inputs(ns, up, width, m),
                               !.outputs = adapter_outputs(ns, down, width, m)] : m \in maps}

-----------------------------------------------------------------------------
(* Adapter::construct: the routing graph *)

BIG == 32768

\* the weight of a lane next to an assigned perpendicular lane
PenaltyWeight == 20

\* the height construct starts from
FirstHeight == 3

\* if height > 30 { solution_found = true }
HeightCeiling == 30

\* Coordinator::index
index(w, h, x, y, l) == x + w * (y + h * l)

IndexX(w, h, i) == i % w
IndexY(w, h, i) == (i \div w) % h
IndexL(w, h, i) == i \div (w * h)

\* a graph whose horizontal lanes leave out the top two rows and the bottom one
edge_exists_low(w, h, e) ==
    LET x == IndexX(w, h, e)
        y == IndexY(w, h, e)
        l == IndexL(w, h, e)
    IN CASE l = 0 -> y # h - 1
         [] l = 1 -> y >= 2 /\ y <= h - 2 /\ x # w - 1
         [] OTHER -> TRUE

\* the edges that the build loop connects: vertical between rows y and y+1, horizontal
\* in the middle rows, a corner at every cell
edge_exists(w, h, e) ==
    LET x == IndexX(w, h, e)
        y == IndexY(w, h, e)
        l == IndexL(w, h, e)
    IN CASE l = 0 -> y # h - 1
         [] l = 1 -> y >= 1 /\ y <= h - 3 /\ x # w - 1
         [] OTHER -> TRUE

\* Edge.a and Edge.b (both 0 for an index that was never connected)
edge_a(w, h, e) ==
    LET x == IndexX(w, h, e)
        y == IndexY(w, h, e)
        l == IndexL(w, h, e)
    IN IF ~edge_exists(w, h, e) THEN 0
       ELSE IF l = 1 THEN index(w, h, x, y, 1) ELSE index(w, h, x, y, 0)

edge_b(w, h, e) ==
    LET x == IndexX(w, h, e)
        y == IndexY(w, h, e)
        l == IndexL(w, h, e)
    IN IF ~edge_exists(w, h, e) THEN 0
       ELSE CASE l = 0 -> index(w, h, x, y + 1, 0)
              [] l = 1 -> index(w, h, x + 1, y, 1)
              [] OTHER -> index(w, h, x, y, 1)

\* the weight an edge is connected with: 1 along a lane, 10 + dy * dy for a corner
edge_weight(w, h, e) ==
    LET y == IndexY(w, h, e)
        dy == (h \div 2) - y
    IN IF ~edge_exists(w, h, e) THEN 0
       ELSE IF IndexL(w, h, e) = 2 THEN 10 + dy * dy ELSE 1

\* Node.edges: the edges at node n, in the order connect pushed them
node_edges(w, h, n) ==
    LET x == IndexX(w, h, n)
        y == IndexY(w, h, n)
        before == IF IndexL(w, h, n) = 0
                  THEN IF y >= 1 THEN <<index(w, h, x, y - 1, 0)>> ELSE <<>>
                  ELSE IF x >= 1 /\ edge_exists(w, h, index(w, h, x - 1, y, 1))
                       THEN <<index(w, h, x - 1, y, 1)>> ELSE <<>>
        own == IF edge_exists(w, h, index(w, h, x, y, IndexL(w, h, n)))
               THEN <<index(w, h, x, y, IndexL(w, h, n))>> ELSE <<>>
    IN before \o own \o <<index(w, h, x, y, 2)>>

\* a trial that is one row taller than asked for
new_trial_taller(w, h, len) ==
    [height |-> h + 1, connector |-> 1, len |-> len,
     weight |-> [e \in 0..(w * (h + 1) * 3 - 1) |-> edge_weight(w, h + 1, e)],
     assigned |-> [e \in 0..(w * (h + 1) * 3 - 1) |-> 0]]

\* the state of construct at the start of a trial of height h
new_trial(w, h, len) ==
    [height |-> h, connector |-> 1, len |-> len,
     weight |-> [e \in 0..(w * h * 3 - 1) |-> edge_weight(w, h, e)],
     assigned |-> [e \in 0..(w * h * 3 - 1) |-> 0]]

\* highest connector id that appears
highest_connector_id(inputs) == SetMax({0} \cup UNION {inputs[x] : x \in DOMAIN inputs})

\* start/end sets
start_set(w, h, inputs, connector) ==
    {index(w, h, x, 0, 0) : x \in {c \in 0..(w - 1) : connector \in inputs[c]}}
end_set(w, h, outputs, connector) ==
    {index(w, h, x, h - 1, 0) : x \in {c \in 0..(w - 1) : connector \in outputs[c]}}

\* the other end of edge e seen from node n
other_end(w, h, e, n) == IF edge_a(w, h, e) = n THEN edge_b(w, h, e) ELSE edge_a(w, h, e)

\* a visit that also pushes the entries of edges that a connection has claimed
dijkstra_visit_claimed(w, h, g, st, live, c, n) ==
    LET pushed(es) == {<<c + g.weight[es[i]], other_end(w, h, es[i], n)>> :
                         i \in {j \in 1..Len(es) :
                                  other_end(w, h, es[j], n) \notin st.visited \cup {n}}}
    IN [pq |-> (live \ {<<c, n>>}) \cup Bind(node_edges(w, h, n), pushed),
        visited |-> st.visited \cup {n},
        cost |-> [st.cost EXCEPT ![n] = c]]

\* the while let Some(..) = pq.pop() loop: pq is a max-heap of (Reverse(cost), node),
\* so it pops the least cost and, among equal costs, the largest node index; an entry
\* of a visited node is popped and skipped
\* the body of the loop for the popped entry (c, n) of a node n not visited before:
\* the entries are pushed for the free edges of n that lead to a node not visited
dijkstra_visit(w, h, g, st, live, c, n) ==
    LET pushed(es) == {<<c + g.weight[es[i]], other_end(w, h, es[i], n)>> :
                         i \in {j \in 1..Len(es) :
                                  /\ g.assigned[es[j]] = 0
                                  /\ other_end(w, h, es[j], n) \notin st.visited \cup {n}}}
    IN [pq |-> (live \ {<<c, n>>}) \cup Bind(node_edges(w, h, n), pushed),
        visited |-> st.visited \cup {n},
        cost |-> [st.cost EXCEPT ![n] = c]]

dijkstra(w, h, g, st) ==
    LET pop(live) ==
            Bind(SetMin({e[1] : e \in live}), LAMBDA c :
                Bind(SetMax({e[2] : e \in {f \in live : f[1] = c}}), LAMBDA n :
                    dijkstra_visit(w, h, g, st, live, c, n)))
    IN Bind({e \in st.pq : e[2] \notin st.visited}, LAMBDA live :
            IF live = {} THEN [st EXCEPT !.pq = {}] ELSE pop(live))

\* the costs of the search of one connector: BIG where it did not get.  Every pop that
\* is not skipped visits a node, so they are at most w * h * 2
search(w, h, g, start) ==
    LET step(st, i) == dijkstra(w, h, g, st)
    IN Loop(step, [pq |-> {<<0, s>> : s \in start}, visited |-> {},
                   cost |-> [n \in 0..(w * h * 2 - 1) |-> BIG]], 1, w * h * 2).cost

\* a pick that takes any target the search got to
cheapest_targets_any(cost, end) == {e \in end : cost[e] < BIG}

\* pick the cheapest target: the ends that can be the first of least cost < BIG
cheapest_targets(cost, end) ==
    {e \in end : cost[e] < BIG /\ \A f \in end : cost[e] <= cost[f]}

\* a back-trace that never finds a predecessor
back_step_blind(w, h, g, cost, start, connector, st) ==
    IF st.cur \in start \/ st.spin THEN st ELSE [st EXCEPT !.spin = TRUE]

\* back-trace & mark path: from cur to a start, along the first edge of cur whose
\* other end has cost = cur.cost - weight; spin when cur has no such edge
back_step(w, h, g, cost, start, connector, st) ==
    LET hits(es) == {i \in 1..Len(es) :
                       cost[other_end(w, h, es[i], st.cur)] + g.weight[es[i]] = cost[st.cur]}
        take(e) == [assigned |-> [st.assigned EXCEPT ![e] = connector],
                    cur |-> other_end(w, h, e, st.cur), spin |-> FALSE]
    IN IF st.cur \in start \/ st.spin THEN st
       ELSE Bind(node_edges(w, h, st.cur), LAMBDA es :
               Bind(hits(es), LAMBDA found :
                   IF found = {} THEN [st EXCEPT !.spin = TRUE] ELSE take(es[SetMin(found)])))

\* the cost falls with every step back, so the steps are fewer than the nodes
back_trace(w, h, g, cost, start, cur, connector) ==
    LET step(st, i) == back_step(w, h, g, cost, start, connector, st)
    IN Loop(step, [assigned |-> g.assigned, cur |-> cur, spin |-> FALSE], 1, w * h * 2)

\* penalise perpendicular crossings
penalise(w, h, weight, assigned) ==
    [e \in DOMAIN weight |->
        LET x == IndexX(w, h, e)
            y == IndexY(w, h, e)
        IN IF IndexL(w, h, e) = 1 /\ assigned[index(w, h, x, y, 0)] # 0 THEN PenaltyWeight
           ELSE IF IndexL(w, h, e) = 0 /\ assigned[index(w, h, x, y, 1)] # 0 THEN PenaltyWeight
           ELSE weight[e]]

\* The glyphs, by name
Blank == " "
HLine == "hline"
VLine == "vline"
CornerTL == "corner_tl"
CornerTR == "corner_tr"
CornerBL == "corner_bl"
CornerBR == "corner_br"
TeeDown == "tee_down"
ArrowDown == "arrow_down"

\* build character raster
raster(w, h, assigned) ==
    [y \in 0..(h - 1) |-> [x \in 0..(w - 1) |->
        LET a0 == assigned[index(w, h, x, y, 0)] # 0
            a1 == assigned[index(w, h, x, y, 1)] # 0
            a2 == assigned[index(w, h, x, y, 2)] # 0
        IN IF a2 THEN (IF a0 THEN (IF a1 THEN CornerTL ELSE CornerTR)
                             ELSE (IF a1 THEN CornerBL ELSE CornerBR))
           ELSE IF a0 THEN VLine
           ELSE IF a1 THEN HLine
           ELSE Blank]]

\* the adapter when construct accepts the trial
accept(adapter, g) ==
    [adapter EXCEPT !.height = g.height,
                    !.rendering = raster(VLen(adapter.inputs), g.height, g.assigned)]

-----------------------------------------------------------------------------
(* Context::layout: y positions *)

\* the y positions with every layer three rows under the one above, bus or not
y_position_layer_flat(st, l) ==
    LET layer == st.layers[l]
        ns1 == [n \in DOMAIN st.nodes |->
                  IF n \in Range(layer.nodes) THEN [st.nodes[n] EXCEPT !.y = st.y_position]
                  ELSE st.nodes[n]]
        es1 == [i \in 1..Len(layer.edges) |-> [layer.edges[i] EXCEPT !.y = st.y_position + 2]]
    IN [nodes |-> ns1,
        layers |-> [st.layers EXCEPT ![l].edges = es1, ![l].adapter.y = st.y_position + 2],
        y_position |-> st.y_position + 3]

\* the body of the loop over the layers, for the layer l
y_position_layer(st, l) ==
    LET layer == st.layers[l]
        ns1 == [n \in DOMAIN st.nodes |->
                  IF n \in Range(layer.nodes) THEN [st.nodes[n] EXCEPT !.y = st.y_position]
                  ELSE st.nodes[n]]
        es1 == [i \in 1..Len(layer.edges) |-> [layer.edges[i] EXCEPT !.y = st.y_position + 2]]
    IN IF layer.adapter.enabled
       THEN [nodes |-> ns1,
             layers |-> [st.layers EXCEPT ![l].edges = es1,
                                          ![l].adapter.y = st.y_position + 2],
             y_position |-> st.y_position + (layer.adapter.height - 3) + 3]
       ELSE [nodes |-> ns1,
             layers |-> [st.layers EXCEPT ![l].edges = es1],
             y_position |-> st.y_position + 3]

y_positions(ns, lys) ==
    Loop(y_position_layer, [nodes |-> ns, layers |-> lys, y_position |-> 0], 0, VLen(lys) - 1)

-----------------------------------------------------------------------------
(* Screen *)

\* a panic of the call: an index outside a Vec in every build, an unsigned
\* subtraction below 0 or addition past usize::MAX in a build with overflow checks
ScreenPanic == [panic |-> TRUE]

IsPanic(scr) == "panic" \in DOMAIN scr

\* Screen::new(width, height): dim_x, dim_y and lines[y][x]
new_screen(w, h) ==
    Bind(w, LAMBDA dim_x :
        [dim_x |-> dim_x, dim_y |-> h,
         lines |-> [y \in 0..(h - 1) |-> [x \in 0..(dim_x - 1) |-> Blank]]])

screen_height(scr) == scr.dim_y
screen_width(scr) == scr.dim_x

\* is lines[y][x] an element of the screen
in_screen(scr, x, y) == y \in DOMAIN scr.lines /\ x \in DOMAIN scr.lines[y]

\* are all the cells of the set cs elements of the screen
cells_in_screen(scr, cs) == \A c \in cs : in_screen(scr, c[1], c[2])

\* Screen::draw_pixel; an index outside the screen is a panic.  Here and below an
\* argument below 0 stands for the value its cast to usize gives, which is beyond
\* every screen
draw_pixel(scr, x, y, c) ==
    IF IsPanic(scr) THEN scr
    ELSE IF in_screen(scr, x, y) THEN [scr EXCEPT !.lines[y][x] = c]
    ELSE ScreenPanic

\* the cells draw_box indexes.  With w < 1 or h < 1 the bound w - 1 or h - 1 of a loop
\* is below 0: a build with overflow checks panics there, and one without runs the
\* loop towards usize::MAX, past every screen; the cell <<-1, -1>> stands for the
\* cells of that run
box_cells(x, y, w, h) ==
    {<<x, y>>, <<x + w - 1, y>>, <<x, y + h - 1>>, <<x + w - 1, y + h - 1>>}
    \cup {<<x + xx, yy>> : xx \in 1..(w - 2), yy \in {y, y + h - 1}}
    \cup {<<xx, y + yy>> : xx \in {x, x + w - 1}, yy \in 1..(h - 2)}
    \cup (IF w < 1 \/ h < 1 THEN {<<-1, -1>>} ELSE {})

\* Screen::draw_box: the four corners, then the horizontal sides, then the vertical
\* sides; a cell takes the glyph written to it last
draw_box(scr, x, y, w, h) ==
    IF IsPanic(scr) THEN scr
    ELSE IF ~cells_in_screen(scr, box_cells(x, y, w, h)) THEN ScreenPanic
    ELSE [scr EXCEPT !.lines =
        [yy \in DOMAIN scr.lines |-> [xx \in DOMAIN scr.lines[yy] |->
            IF yy - y >= 1 /\ yy - y <= h - 2 /\ xx = x + w - 1 THEN VLine
            ELSE IF yy - y >= 1 /\ yy - y <= h - 2 /\ xx = x THEN VLine
            ELSE IF xx - x >= 1 /\ xx - x <= w - 2 /\ yy = y + h - 1 THEN HLine
            ELSE IF xx - x >= 1 /\ xx - x <= w - 2 /\ yy = y THEN HLine
            ELSE IF xx = x + w - 1 /\ yy = y + h - 1 THEN CornerBR
            ELSE IF xx = x /\ yy = y + h - 1 THEN CornerBL
            ELSE IF xx = x + w - 1 /\ yy = y THEN CornerTR
            ELSE IF xx = x /\ yy = y THEN CornerTL
            ELSE scr.lines[yy][xx]]]]

\* does a + b pass usize::MAX, for a as usize and 0 <= b
add_overflows(a, b) == a < 0 /\ a + b >= 0

\* the cells draw_text indexes on a screen of width dim_x when x + i wraps: those with
\* x + i < dim_x in usize
text_cells(dim_x, x, y, text) ==
    {<<x + i, y>> : i \in {j \in 0..(Len(text) - 1) : x + j >= 0 /\ x + j < dim_x}}

\* the loop of draw_text with x + i wrapping: a character right of the screen is left out
write_text(scr, x, y, text) ==
    IF IsPanic(scr) THEN scr
    ELSE IF ~cells_in_screen(scr, text_cells(scr.dim_x, x, y, text)) THEN ScreenPanic
    ELSE [scr EXCEPT !.lines =
        [yy \in DOMAIN scr.lines |-> [xx \in DOMAIN scr.lines[yy] |->
            IF yy = y /\ xx - x >= 0 /\ xx - x < Len(text) THEN text[xx - x + 1]
            ELSE scr.lines[yy][xx]]]]

\* Screen::draw_text: what the builds can give.  When x + i passes usize::MAX for a
\* character of the text, a build with overflow checks panics there, having written
\* nothing, and one without goes on with the wrapped column
draw_text(scr, x, y, text) ==
    IF IsPanic(scr) THEN {scr}
    ELSE {write_text(scr, x, y, text)}
         \cup (IF add_overflows(x, Len(text) - 1) THEN {ScreenPanic} ELSE {})

\* the margin of draw_text_in_box_center, (width - text.chars().count()) / 2 in usize.
\* When the text is longer than width the subtraction is below 0: a build with
\* overflow checks panics, and one without goes on with the margin (2^64 - k) / 2,
\* which is beyond every screen, as is the margin of a width that is itself below 0
center_margin(width, text) ==
    IF width >= Len(text) THEN {[kind |-> "at", margin |-> (width - Len(text)) \div 2]}
    ELSE IF width < 0 THEN {[kind |-> "beyond"]}
    ELSE {[kind |-> "panic"], [kind |-> "beyond"]}

\* Screen::draw_text_in_box_center: what the builds can give.  x + margin and y + 1
\* are additions in usize: where one passes usize::MAX a build with overflow checks
\* panics and one without draws at the wrapped place
draw_text_in_box_center(scr, x, y, width, text) ==
    IF IsPanic(scr) THEN {scr}
    ELSE UNION {IF m.kind = "panic" THEN {ScreenPanic}
                ELSE IF m.kind = "beyond"
                THEN {scr} \cup (IF width < 0 /\ (x < 0 \/ add_overflows(y, 1))
                                 THEN {ScreenPanic} ELSE {})
                ELSE IF add_overflows(x, m.margin) \/ add_overflows(y, 1)
                THEN {ScreenPanic, write_text(scr, x + m.margin, y + 1, text)}
                ELSE draw_text(scr, x + m.margin, y + 1, text) :
                m \in center_margin(width, text)}

\* the cells draw_vertical_line indexes: for y in top..=bottom in usize.  From a top
\* below 0 to a bottom of 0 or more the range is empty; from a top of 0 or more to a
\* bottom below 0 it runs through every row up to bottom as usize, and its first and
\* last rows stand for it
line_cells(top, bottom, x) ==
    IF top < 0 /\ bottom >= 0 THEN {}
    ELSE IF top >= 0 /\ bottom < 0 THEN {<<x, top>>, <<x, bottom>>}
    ELSE {<<x, y>> : y \in top..bottom}

\* Screen::draw_vertical_line
draw_vertical_line(scr, top, bottom, x, c) ==
    IF IsPanic(scr) THEN scr
    ELSE IF ~cells_in_screen(scr, line_cells(top, bottom, x)) THEN ScreenPanic
    ELSE [scr EXCEPT !.lines =
        [yy \in DOMAIN scr.lines |-> [xx \in DOMAIN scr.lines[yy] |->
            IF <<xx, yy>> \in line_cells(top, bottom, x) THEN c ELSE scr.lines[yy][xx]]]]

\* Screen::stringify: the rows, each followed by a newline
stringify(scr) ==
    LET rows(lines, w) ==
            [k \in 1..(VLen(lines) * (w + 1)) |->
                IF (k - 1) % (w + 1) = w THEN "\n"
                ELSE lines[(k - 1) \div (w + 1)][(k - 1) % (w + 1)]]
    IN Bind(scr, LAMBDA sc : rows(sc.lines, sc.dim_x))

-----------------------------------------------------------------------------
(* Adapter::render and Context::render *)

\* the glyph Adapter::render leaves at a cell of row dy that holds p
adapter_glyph(ad, dy, p, ch) ==
    IF dy = 0 /\ p = HLine THEN TeeDown
    ELSE IF dy = ad.height - 2 /\ p = HLine THEN ArrowDown
    ELSE ch

\* the rows 0..height-2 of the rendering that Adapter::render walks (those it has)
adapter_rows(ad) == {dy \in 0..(ad.height - 2) : dy \in DOMAIN ad.rendering}

\* the cells Adapter::render takes with screen.pixel
adapter_cells(ad) ==
    UNION {{<<x, ad.y + dy>> : x \in {c \in DOMAIN ad.rendering[dy] : ad.rendering[dy][c] # Blank}} :
             dy \in adapter_rows(ad)}

\* a row of 0..height-2 that the rendering does not have: self.rendering[dy] panics
adapter_row_missing(ad) == \E dy \in 0..(ad.height - 2) : dy \notin DOMAIN ad.rendering

adapter_render(scr, ad) ==
    IF IsPanic(scr) THEN scr
    ELSE IF adapter_row_missing(ad) \/ ~cells_in_screen(scr, adapter_cells(ad))
    THEN ScreenPanic
    ELSE [scr EXCEPT !.lines =
        [yy \in DOMAIN scr.lines |-> [xx \in DOMAIN scr.lines[yy] |->
            LET dy == yy - ad.y
            IN IF dy \in adapter_rows(ad) /\ xx \in DOMAIN ad.rendering[dy]
                  /\ ad.rendering[dy][xx] # Blank
               THEN adapter_glyph(ad, dy, scr.lines[yy][xx], ad.rendering[dy][xx])
               ELSE scr.lines[yy][xx]]]]

\* a grid as wide as the leftmost column of the rightmost box
total_width_of_x(ns) == SetMax({0} \cup {ns[n].x : n \in DOMAIN ns})

\* total size
total_width(ns) == SetMax({0} \cup {ns[n].x + ns[n].width : n \in DOMAIN ns})
total_height(ns) == SetMax({0} \cup {ns[n].y + ns[n].height : n \in DOMAIN ns})

\* the body of the first loop of render, for the node n with its label: the screens
\* the builds can give
render_node(scr, n, label) ==
    IF n.is_connector
    THEN IF n.width = 1
         THEN {draw_vertical_line(scr, n.y, n.y + 2, n.x, VLine)}
         ELSE {draw_box(scr, n.x, n.y, n.width, n.height)}
    ELSE Bind(draw_box(scr, n.x, n.y, n.width, n.height),
              LAMBDA boxed : draw_text_in_box_center(boxed, n.x, n.y, n.width, label))

render_nodes(scr, ns, lbls) ==
    LET step(S, i) == UNION {render_node(sc, ns[i], lbls[i]) : sc \in S}
    IN Loop(step, {scr}, 0, VLen(ns) - 1)

\* the two glyphs of a direct edge
edge_up_glyph(ns, e) == IF ns[e.up].is_connector THEN VLine ELSE TeeDown
edge_down_glyph(ns, e) == IF ns[e.down].is_connector THEN VLine ELSE ArrowDown

\* the body of the second loop of render, for the edge e
render_edge(scr, ns, e) ==
    Bind(draw_pixel(scr, e.x, e.y, edge_up_glyph(ns, e)),
         LAMBDA upper : draw_pixel(upper, e.x, e.y + 1, edge_down_glyph(ns, e)))

render_edges(scr, ns, es) ==
    Bind(es, LAMBDA edges :
        LET step(sc, i) == render_edge(sc, ns, edges[i]) IN Loop(step, scr, 1, Len(edges)))

\* the third loop of render
render_adapters(scr, lys) ==
    LET step(sc, l) == IF lys[l].adapter.enabled THEN adapter_render(sc, lys[l].adapter)
                       ELSE sc
    IN Loop(step, scr, 0, VLen(lys) - 1)

all_edges(lys) == Concat([l \in 1..VLen(lys) |-> lys[l - 1].edges])

\* the labels longer than their box: the unsigned subtraction of the margin is below 0
\* (a panic with overflow checks, a label left out without)
render_underflows(ns, lys, lbls) ==
    \E i \in DOMAIN ns : ~ns[i].is_connector /\ ns[i].width < Len(lbls[i])

\* the cells render indexes on the screen
render_cells(ns, lys, lbls) ==
    Bind(total_width(ns), LAMBDA dim_x :
        UNION {IF ns[i].is_connector
               THEN IF ns[i].width = 1
                    THEN line_cells(ns[i].y, ns[i].y + 2, ns[i].x)
                    ELSE box_cells(ns[i].x, ns[i].y, ns[i].width, ns[i].height)
               ELSE box_cells(ns[i].x, ns[i].y, ns[i].width, ns[i].height)
                    \cup UNION {text_cells(dim_x, ns[i].x + m.margin, ns[i].y + 1, lbls[i]) :
                                  m \in {k \in center_margin(ns[i].width, lbls[i]) :
                                            k.kind = "at"}} : i \in DOMAIN ns})
    \cup UNION {{<<e.x, e.y>>, <<e.x, e.y + 1>>} : e \in Range(all_edges(lys))}
    \cup UNION {IF lys[l].adapter.enabled THEN adapter_cells(lys[l].adapter) ELSE {} :
                  l \in DOMAIN lys}

\* is the cell c an element of a screen of the size w by h
on_screen(c, w, h) == c[1] >= 0 /\ c[1] < w /\ c[2] >= 0 /\ c[2] < h

\* the screens render can end with, a panic among them
render_screens(ns, lys, lbls) ==
    {render_adapters(render_edges(sc, ns, all_edges(lys)), lys) :
        sc \in render_nodes(new_screen(total_width(ns), total_height(ns)), ns, lbls)}

\* does render panic in every build
render_panics(ns, lys, lbls) == \A sc \in render_screens(ns, lys, lbls) : IsPanic(sc)

\* Context::render: what the builds can give, a panic or the text of the screen
render(ns, lys, lbls) ==
    {IF IsPanic(sc) THEN sc ELSE [text |-> stringify(sc)] : sc \in render_screens(ns, lys, lbls)}

-----------------------------------------------------------------------------
(* Results of process *)

NoResult == [kind |-> "none", text |-> <<>>]
Ok(text) == [kind |-> "Ok", text |-> text]
CycleFound == [kind |-> "Err", text |-> <<>>]
Panicked == [kind |-> "panic", text |-> <<>>]

NoRouter == [height |-> 0, connector |-> 0, len |-> 0, weight |-> EmptyVec, assigned |-> EmptyVec]

-----------------------------------------------------------------------------
(* Inputs *)

Alphabet == {"A", "B", " ", "\n", "-", ">"}

RECURSIVE TextsUpTo(_)
TextsUpTo(n) ==
    IF n = 0 THEN {<<>>}
    ELSE LET shorter == TextsUpTo(n - 1)
         IN shorter \cup {Append(t, c) : t \in {u \in shorter : Len(u) = n - 1}, c \in Alphabet}

ShortTexts == TextsUpTo(MaxTextLen)

Letters == <<"A", "B", "C", "D", "E", "F", "G", "H">>

\* the k-th name: one or two letters, so that labels of both parities occur
NameOf(k) == IF k % 2 = 1 THEN <<Letters[k]>> ELSE <<Letters[k], Letters[k]>>

Arrow == <<"-", ">">>

\* lines joined by "\n"
JoinLines(ls) ==
    LET step(acc, i) == IF i = 1 THEN ls[1] ELSE acc \o <<"\n">> \o ls[i]
    IN Loop(step, <<>>, 1, Len(ls))

\* one line "a->b" per edge, the edges in the order of their (a, b)
TextOfEdges(es) ==
    LET keyed == SortedSeq({e[1] * (MaxNames + 1) + e[2] : e \in es})
    IN JoinLines([i \in 1..Len(keyed) |->
            NameOf(keyed[i] \div (MaxNames + 1)) \o Arrow \o NameOf(keyed[i] % (MaxNames + 1))])

EdgeTexts == {TextOfEdges(es) : es \in SubsetsUpTo((1..MaxNames) \X (1..MaxNames), MaxEdges)}

Digits == <<"0", "1", "2", "3", "4", "5", "6", "7", "8", "9">>

RECURSIVE Decimal(_)
Decimal(k) == IF k < 10 THEN <<Digits[k + 1]>> ELSE Append(Decimal(k \div 10), Digits[(k % 10) + 1])

\* the names of the deep input: N0, N1, ...
DeepName(k) == <<"N">> \o Decimal(k)

SpacedArrow == <<" ", "-", ">", " ">>

\* "N0 -> N1 -> ... -> Nm"
ChainLine(m) ==
    LET step(acc, i) == acc \o SpacedArrow \o DeepName(i) IN Loop(step, DeepName(0), 1, m)

\* the chain N0 -> ... -> Nm and, under it, the k nested long edges Nj -> N(m-j)
DeepText(m, k) ==
    JoinLines(<<ChainLine(m)>> \o
              [j \in 1..k |-> DeepName(j - 1) \o SpacedArrow \o DeepName(m - (j - 1))])

\* the deep input with two leaves X and Y under the end of the chain
DeepLeafText(m, k) ==
    JoinLines(<<DeepText(m, k), DeepName(m) \o SpacedArrow \o <<"X">>,
                DeepName(m) \o SpacedArrow \o <<"Y">>>>)

DeepTexts == {DeepText(DeepLen, DeepLong), DeepLeafText(DeepLen, DeepLong)}

\* a line "a -> b -> ... -> z" of one-letter names
PathLine(names) ==
    LET step(acc, i) == acc \o SpacedArrow \o <<names[i]>>
    IN Loop(step, <<names[1]>>, 2, Len(names))

\* test_dag_to_graph_1: "A -> B -> C\nA -> D -> C"
TestText1 == JoinLines(<<PathLine(<<"A", "B", "C">>), PathLine(<<"A", "D", "C">>)>>)

\* test_dag_to_graph_4 and main: "A -> C\nA -> D -> C\nB -> D\nE -> C"
TestText4 ==
    JoinLines(<<PathLine(<<"A", "C">>), PathLine(<<"A", "D", "C">>),
                PathLine(<<"B", "D">>), PathLine(<<"E", "C">>)>>)

\* the indentation of the lines of the doc example
DocIndent == <<" ", " ", " ", " ">>

\* the raw string of the doc example of dag_to_text: a newline, then the indented lines
\* "A -> B -> C", "D -> C", "D -> E", each followed by a newline
DocText ==
    <<"\n">> \o DocIndent \o PathLine(<<"A", "B", "C">>) \o <<"\n">>
             \o DocIndent \o PathLine(<<"D", "C">>) \o <<"\n">>
             \o DocIndent \o PathLine(<<"D", "E">>) \o <<"\n">>

\* two parents with the same two children, one of them with a child of its own: a layer
\* with a bus above a layer with a direct edge
BusText ==
    JoinLines(<<PathLine(<<"A", "C">>), PathLine(<<"A", "D">>), PathLine(<<"B", "C">>),
                PathLine(<<"B", "D">>), PathLine(<<"D", "E">>)>>)

\* an input with two buses, one of which has no routing at any height for some of
\* the orders in which its sets are iterated
CeilingText ==
    JoinLines(<<PathLine(<<"3", "6">>), PathLine(<<"1", "5">>), PathLine(<<"3", "4">>),
                PathLine(<<"4", "6">>), PathLine(<<"2", "3">>), PathLine(<<"2", "5">>),
                PathLine(<<"2", "4">>), PathLine(<<"4", "5">>), PathLine(<<"1", "6">>),
                PathLine(<<"1", "3">>), PathLine(<<"0", "2">>)>>)

\* a parent with four children, two of them shared with a second parent: a bus under a
\* vertex whose width comes from its number of connections
StarBusText ==
    JoinLines(<<PathLine(<<"A", "B">>), PathLine(<<"A", "C">>), PathLine(<<"A", "D">>),
                PathLine(<<"A", "E">>), PathLine(<<"F", "B">>), PathLine(<<"F", "C">>)>>)

\* the inputs of the runs that look at the width of a vertex with many connections
StarTexts == {StarBusText, BusText, TestText1, TestText4}

\* the inputs of the runs that look at the bus router
BusTexts == {CeilingText, BusText, TestText1, TestText4}

\* lines that end with a carriage return and a line feed, a tab and a form feed
\* around the names: "A -> B\r\n\tB ->\fC\r\n"
CrLfText ==
    <<"A", " ", "-", ">", " ", "B", "\r", "\n",
      "\t", "B", " ", "-", ">", "\f", "C", "\r", "\n">>

TestTexts == {TestText1, TestText4, DocText, BusText, CrLfText}

Inputs == ShortTexts \cup EdgeTexts \cup DeepTexts \cup TestTexts

-----------------------------------------------------------------------------
(* The state machine of Context::process *)

Ctx == [labels |-> labels, id |-> id, nodes |-> nodes]

InitWith(texts) ==
    /\ input \in texts
    /\ pc = "parse"
    /\ labels = EmptyVec
    /\ id = EmptyVec
    /\ nodes = EmptyVec
    /\ layers = EmptyVec
    /\ iter = 0
    /\ ly = 0
    /\ perm = <<>>
    /\ router = NoRouter
    /\ result = NoResult
    /\ prev = NoResult

Init == InitWith(Inputs)

\* parse: one line of for line in split(input, "\n")
ParseLine ==
    /\ pc = "parse"
    /\ \E lines \in {split(input, <<"\n">>)} :
        /\ iter < Len(lines)
        /\ \E c \in {parse_line(Ctx, lines[iter + 1])} :
            /\ labels' = c.labels
            /\ id' = c.id
            /\ nodes' = c.nodes
    /\ iter' = iter + 1
    /\ UNCHANGED <<input, pc, layers, ly, perm, router, result, prev>>

\* process: after ctx.parse(input), if ctx.is_empty() { return Ok(String::new()) }
ParseEnd ==
    /\ pc = "parse"
    /\ iter >= Len(split(input, <<"\n">>))
    /\ IF is_empty(Ctx)
       THEN pc' = "done" /\ result' = Ok(<<>>)
       ELSE pc' = "toposort" /\ result' = result
    /\ iter' = 0
    /\ UNCHANGED <<input, labels, id, nodes, layers, ly, perm, router, prev>>

\* one pass of toposort's while loop; Err(CycleFound) when iter exceeds n*n
ToposortPass ==
    /\ pc = "toposort"
    /\ \E r \in toposort_pass(nodes) :
        /\ nodes' = r.nodes
        /\ iter' = iter + 1
        /\ IF toposort_gives_up(iter + 1, nodes)
           THEN pc' = "done" /\ result' = CycleFound
           ELSE /\ pc' = IF r.changed THEN "toposort" ELSE "complete"
                /\ result' = result
    /\ UNCHANGED <<input, labels, id, layers, ly, perm, router, prev>>

\* one round of complete's loop
CompletePass ==
    /\ pc = "complete"
    /\ \E r \in complete_pass(Ctx) :
        /\ nodes' = r.ctx.nodes
        /\ labels' = r.ctx.labels
        /\ pc' = IF r.again THEN "complete" ELSE "build_layers"
    /\ UNCHANGED <<input, id, layers, iter, ly, perm, router, result, prev>>

\* build_layers up to the call of optimize_row_order, and the downward closures
BuildLayers ==
    /\ pc = "build_layers"
    /\ \E lys \in {group_by_layer(nodes)} :
        /\ layers' = lys
        /\ nodes' = downward_closures(nodes, lys)
    /\ ly' = 0
    /\ perm' = <<>>
    /\ pc' = "optimize"
    /\ UNCHANGED <<input, labels, id, iter, router, result, prev>>

\* optimize_row_order: a layer with w <= 1 is skipped
OptimizeSkip ==
    /\ pc = "optimize"
    /\ ly < VLen(layers)
    /\ Len(layers[ly].nodes) <= 1
    /\ ly' = ly + 1
    /\ UNCHANGED <<input, pc, labels, id, nodes, layers, iter, perm, router, result, prev>>

\* optimize_row_order: the search of a layer starts from the identity permutation
OptimizeBegin ==
    /\ pc = "optimize"
    /\ ly < VLen(layers)
    /\ Len(layers[ly].nodes) > 1
    /\ perm = <<>>
    /\ perm' = identity_perm(Len(layers[ly].nodes))
    /\ UNCHANGED <<input, pc, labels, id, nodes, layers, iter, ly, router, result, prev>>

\* optimize_row_order: one sweep of the swap-improve loop; the sweep that improves
\* nothing ends the loop, and the order is applied and the rows are assigned
OptimizeSweep ==
    /\ pc = "optimize"
    /\ ly < VLen(layers)
    /\ perm # <<>>
    /\ \E r \in {sweep(nodes, layers[ly].nodes, perm)} :
        IF r.improved
        THEN /\ perm' = r.perm
             /\ UNCHANGED <<nodes, layers, ly>>
        ELSE \E new_nodes \in {apply_order(layers[ly].nodes, r.perm)} :
             /\ layers' = [layers EXCEPT ![ly].nodes = new_nodes]
             /\ nodes' = assign_rows(nodes, new_nodes)
             /\ ly' = ly + 1
             /\ perm' = <<>>
    /\ UNCHANGED <<input, pc, labels, id, iter, router, result, prev>>

\* the rest of build_layers: sort adj lists, fill edges
FillEdges ==
    /\ pc = "optimize"
    /\ ly >= VLen(layers)
    /\ \E ns \in {sort_adj(nodes)} :
        /\ nodes' = ns
        /\ layers' = fill_edges(ns, layers)
    /\ pc' = "resolve_crossings"
    /\ UNCHANGED <<input, labels, id, iter, ly, perm, router, result, prev>>

ResolveCrossings ==
    /\ pc = "resolve_crossings"
    /\ layers' = resolve_crossings(nodes, layers)
    /\ pc' = "layout"
    /\ UNCHANGED <<input, labels, id, nodes, iter, ly, perm, router, result, prev>>

\* layout: the sizes of the nodes
LayoutSizes ==
    /\ pc = "layout"
    /\ nodes' = initial_sizes(nodes, labels)
    /\ iter' = 0
    /\ pc' = "relax"
    /\ UNCHANGED <<input, labels, id, layers, ly, perm, router, result, prev>>

\* layout: one iteration of for _ in 0..1000; the loop ends when every pass
\* answered true, or with its last iteration
RelaxRound ==
    /\ pc = "relax"
    /\ iter < RelaxBound
    /\ \E r \in {relax_round(nodes, layers)} :
        /\ nodes' = r.nodes
        /\ layers' = r.layers
        /\ iter' = iter + 1
        /\ pc' = IF r.stable \/ iter + 1 >= RelaxBound THEN "adapters" ELSE "relax"
    /\ ly' = 0
    /\ UNCHANGED <<input, labels, id, perm, router, result, prev>>

\* layout: a layer without a bus is passed over (the loop runs over 0..layers.len() - 1)
AdapterSkip ==
    /\ pc = "adapters"
    /\ ly < VLen(layers) - 1
    /\ ~layers[ly].adapter.enabled
    /\ ly' = ly + 1
    /\ UNCHANGED <<input, pc, labels, id, nodes, layers, iter, perm, router, result, prev>>

\* layout: the input and output sets of the bus of layer ly; construct starts at height 3
AdapterBegin ==
    /\ pc = "adapters"
    /\ ly < VLen(layers) - 1
    /\ layers[ly].adapter.enabled
    /\ \E ad \in adapter_ios(nodes, layers, ly) :
        /\ layers' = [layers EXCEPT ![ly].adapter = ad]
        /\ router' = new_trial(VLen(ad.inputs), FirstHeight, highest_connector_id(ad.inputs))
    /\ pc' = "route"
    /\ UNCHANGED <<input, labels, id, nodes, iter, ly, perm, result, prev>>

\* construct: route the next connector at the height of the trial.  Without a target
\* the trial fails: the next height is tried, or, above the ceiling, the trial is
\* accepted as it is.
RouteConnector ==
    /\ pc = "route"
    /\ router.connector <= router.len
    /\ LET ad == layers[ly].adapter
           w == VLen(ad.inputs)
           h == router.height
       IN \E start \in {start_set(w, h, ad.inputs, router.connector)},
             end \in {end_set(w, h, ad.outputs, router.connector)},
             cost \in {search(w, h, router, start_set(w, h, ad.inputs, router.connector))} :
          LET targets == cheapest_targets(cost, end)
          IN IF targets = {}
             THEN IF h > HeightCeiling
                  THEN /\ layers' = [layers EXCEPT ![ly].adapter = accept(ad, router)]
                       /\ router' = NoRouter
                       /\ ly' = ly + 1
                       /\ pc' = "adapters"
                  ELSE /\ router' = new_trial(w, h + 1, router.len)
                       /\ UNCHANGED <<layers, ly, pc>>
             ELSE \E t \in targets :
                   \E bt \in {back_trace(w, h, router, cost, start, t, router.connector)} :
                      /\ router' = [router EXCEPT
                                       !.assigned = bt.assigned,
                                       !.weight = penalise(w, h, router.weight, bt.assigned),
                                       !.connector = router.connector + 1]
                      /\ pc' = IF bt.spin THEN "spin" ELSE "route"
                      /\ UNCHANGED <<layers, ly>>
    /\ UNCHANGED <<input, labels, id, nodes, iter, perm, result, prev>>

\* construct: every connector is routed, the trial is accepted
RouteAccept ==
    /\ pc = "route"
    /\ router.connector > router.len
    /\ layers' = [layers EXCEPT ![ly].adapter = accept(layers[ly].adapter, router)]
    /\ router' = NoRouter
    /\ ly' = ly + 1
    /\ pc' = "adapters"
    /\ UNCHANGED <<input, labels, id, nodes, iter, perm, result, prev>>

\* layout: the y positions
YPositions ==
    /\ pc = "adapters"
    /\ ly >= VLen(layers) - 1
    /\ \E r \in {y_positions(nodes, layers)} : nodes' = r.nodes /\ layers' = r.layers
    /\ pc' = "render"
    /\ UNCHANGED <<input, labels, id, iter, ly, perm, router, result, prev>>

\* render, and process returns Ok(res); an index outside the screen is a panic
Render ==
    /\ pc = "render"
    /\ \E res \in render(nodes, layers, labels) :
          result' = IF IsPanic(res) THEN Panicked ELSE Ok(res.text)
    /\ pc' = "done"
    /\ UNCHANGED <<input, labels, id, nodes, layers, iter, ly, perm, router, prev>>

Next ==
    \/ ParseLine
    \/ ParseEnd
    \/ ToposortPass
    \/ CompletePass
    \/ BuildLayers
    \/ OptimizeSkip
    \/ OptimizeBegin
    \/ OptimizeSweep
    \/ FillEdges
    \/ ResolveCrossings
    \/ LayoutSizes
    \/ RelaxRound
    \/ AdapterSkip
    \/ AdapterBegin
    \/ RouteConnector
    \/ RouteAccept
    \/ YPositions
    \/ Render

Spec == Init /\ [][Next]_vars

\* the calls whose inputs are the bus inputs
BusSpec == InitWith(BusTexts) /\ [][Next]_vars

\* the calls on the inputs with a vertex of many connections
StarSpec == InitWith(StarTexts) /\ [][Next]_vars

\* every call returns: the steps of process are taken as long as one is possible
FairSpec == Spec /\ WF_vars(Next)

\* a second call of dag_to_text on the same input, with a fresh Context; prev keeps
\* what the first call returned
CallAgain ==
    /\ pc = "done"
    /\ prev = NoResult
    /\ prev' = result
    /\ pc' = "parse"
    /\ labels' = EmptyVec
    /\ id' = EmptyVec
    /\ nodes' = EmptyVec
    /\ layers' = EmptyVec
    /\ iter' = 0
    /\ ly' = 0
    /\ perm' = <<>>
    /\ router' = NoRouter
    /\ result' = NoResult
    /\ UNCHANGED input

NextTwice == Next \/ CallAgain

\* two calls on one input, the input an edge list
SpecTwice == InitWith(EdgeTexts) /\ [][NextTwice]_vars

-----------------------------------------------------------------------------
(* Context::process_petgraph: the registry filled from a graph and a serializer *)

\* the graphs handed to petgraph_dag_to_text have at most this many nodes
MaxGraphNodes == 3

\* what the serializer returns for a node: any String, taken as it is (not trimmed, not
\* split at "->" or at a line end); two nodes may get the same String
GraphLabels == {<<>>, <<"A">>, <<" ", "A">>, <<"-", ">", "\n">>}

\* Acyclic<G>: some ranking of the nodes grows along every edge
GraphIsAcyclic(n, es) == \E rank \in [1..n -> 1..n] : \A e \in es : rank[e[1]] < rank[e[2]]

\* a graph of n nodes: names[i] is the serializer's String for node i, out[i] the
\* neighbours of node i in the order neighbors_directed(i, Outgoing) yields them
GraphsOf(n) ==
    UNION {{[names |-> names, out |-> out] :
               names \in [1..n -> GraphLabels],
               out \in {o \in [1..n -> UNION {Orders(T) : T \in SUBSET (1..n)}] :
                           \A i \in 1..n : o[i] \in Orders({e[2] : e \in {d \in es : d[1] = i}})}} :
           es \in {E \in SUBSET ((1..n) \X (1..n)) : GraphIsAcyclic(n, E)}}

\* main: DiGraph::from_edges(&[(1, 2), (2, 3), (1, 10)]) with |n| n.index().to_string():
\* the nodes 0..10 in the order nodes_iter yields them, the neighbours of node 1 as
\* 10, 2 and of node 2 as 3, each named by its place in that order
MainGraph ==
    LET order == <<9, 8, 7, 6, 5, 4, 1, 10, 2, 3, 0>>
    IN [names |-> [i \in 1..11 |-> Decimal(order[i])],
        out |-> [i \in 1..11 |-> IF order[i] = 1 THEN <<8, 9>>
                                 ELSE IF order[i] = 2 THEN <<10>> ELSE <<>>]]

\* two parents with the same two children, one of them with a child of its own
BusGraph ==
    [names |-> <<<<"A">>, <<"B">>, <<"C">>, <<"D">>, <<"E">>>>,
     out |-> <<<<3, 4>>, <<4, 3>>, <<>>, <<5>>, <<>>>>]

Graphs == UNION {GraphsOf(n) : n \in 0..MaxGraphNodes} \cup {MainGraph, BusGraph}

\* the body of for node in input.nodes_iter(), for node i of graph g
petgraph_node(ctx, g, i) ==
    LET source == g.names[i]
        edge(c, k) ==
            Bind(g.names[g.out[i][k]],
                 LAMBDA target : add_vertex(add_node(c, target), source, target))
    IN Loop(edge, add_node(ctx, source), 1, Len(g.out[i]))

\* a call of petgraph_dag_to_text: input is the graph, ctx = Self::default()
GraphInit ==
    /\ input \in Graphs
    /\ pc = "petgraph"
    /\ labels = EmptyVec
    /\ id = EmptyVec
    /\ nodes = EmptyVec
    /\ layers = EmptyVec
    /\ iter = 0
    /\ ly = 0
    /\ perm = <<>>
    /\ router = NoRouter
    /\ result = NoResult
    /\ prev = NoResult

\* process_petgraph: one node of for node in input.nodes_iter()
PetgraphNode ==
    /\ pc = "petgraph"
    /\ iter < Len(input.names)
    /\ \E c \in {petgraph_node(Ctx, input, iter + 1)} :
        /\ labels' = c.labels
        /\ id' = c.id
        /\ nodes' = c.nodes
    /\ iter' = iter + 1
    /\ UNCHANGED <<input, pc, layers, ly, perm, router, result, prev>>

\* process_petgraph: after the loop, if ctx.is_empty() { return Ok(String::new()) }
PetgraphEnd ==
    /\ pc = "petgraph"
    /\ iter >= Len(input.names)
    /\ IF is_empty(Ctx)
       THEN pc' = "done" /\ result' = Ok(<<>>)
       ELSE pc' = "toposort" /\ result' = result
    /\ iter' = 0
    /\ UNCHANGED <<input, labels, id, nodes, layers, ly, perm, router, prev>>

\* the steps of process_petgraph: the registry fill, then the phases of process
GraphNext ==
    \/ PetgraphNode
    \/ PetgraphEnd
    \/ ToposortPass
    \/ CompletePass
    \/ BuildLayers
    \/ OptimizeSkip
    \/ OptimizeBegin
    \/ OptimizeSweep
    \/ FillEdges
    \/ ResolveCrossings
    \/ LayoutSizes
    \/ RelaxRound
    \/ AdapterSkip
    \/ AdapterBegin
    \/ RouteConnector
    \/ RouteAccept
    \/ YPositions
    \/ Render

\* the calls of petgraph_dag_to_text
GraphSpec == GraphInit /\ [][GraphNext]_vars

-----------------------------------------------------------------------------
(* Properties *)

\* what parse registers for the input of the call
Parsed == parse(EmptyCtx, input).nodes

\* the vertices left after |ns| rounds of removing those without a downward
\* neighbour among the rest: the vertices from which a cycle is reached
CycleCore(ns) ==
    LET step(S, i) == {a \in S : ns[a].downward \cap S # {}}
    IN Loop(step, DOMAIN ns, 1, VLen(ns))

HasCycle(ns) == CycleCore(ns) # {}

\* process returned a diagram of a graph with vertices
Drawn == pc = "done" /\ result.kind = "Ok" /\ VLen(nodes) > 0

\* the phases after complete, after the row ordering and after the relaxation loop
AfterComplete ==
    \/ pc \in {"build_layers", "optimize", "resolve_crossings", "layout", "relax",
               "adapters", "route", "render"}
    \/ Drawn

AfterOrdering ==
    \/ pc \in {"resolve_crossings", "layout", "relax", "adapters", "route", "render"}
    \/ Drawn

AfterGeometry == pc \in {"adapters", "route", "render"} \/ Drawn

\* C1: an input whose edges contain a directed cycle, a self-loop included, never gets
\* past leveling: the call returns CycleFound, and no layer and no text is produced
CycleRule ==
    HasCycle(Parsed) =>
        /\ pc \in {"parse", "toposort", "done"}
        /\ pc = "done" => result = CycleFound
        /\ layers = EmptyVec

CycleRuleWitness ==
    /\ pc = "done"
    /\ result = CycleFound
    /\ \E a \in DOMAIN nodes : a \in nodes[a].downward

\* C2: for an acyclic input with n >= 1 vertices leveling needs a further pass only
\* after fewer than n*n passes, it ends with at most n*n passes, and CycleFound is
\* never returned
AcyclicLevels ==
    (~HasCycle(Parsed) /\ VLen(Parsed) >= 1) =>
        /\ result # CycleFound
        /\ pc = "toposort" => iter < VLen(Parsed) * VLen(Parsed)
        /\ pc \in {"complete", "build_layers", "optimize", "resolve_crossings", "layout"}
              => iter <= VLen(Parsed) * VLen(Parsed)

AcyclicLevelsWitness ==
    /\ pc = "complete"
    /\ iter >= 3
    /\ ~HasCycle(Parsed)

\* C3: an input that registers no vertex returns Ok with the empty string, and none of
\* the phases after parse runs
EmptyRule ==
    VLen(Parsed) = 0 =>
        /\ pc \in {"parse", "done"}
        /\ pc = "done" => result = Ok(<<>>)
        /\ nodes = EmptyVec /\ layers = EmptyVec /\ router = NoRouter

EmptyRuleWitness ==
    /\ pc = "done"
    /\ result = Ok(<<>>)
    /\ "-" \in Range(input)

\* C4: the second call on an input returns what the first call returned, whatever the
\* iteration orders of the sets and of the connection-id map
SameOutput == (pc = "done" /\ prev # NoResult) => result = prev

\* C5: an acyclic input never panics: no coordinate is negative, every connector lies
\* under a layer, and every cell render writes is inside the grid of the rightmost
\* right edge by the lowest bottom edge, without an unsigned subtraction below zero
NoPanic ==
    ~HasCycle(Parsed) =>
        /\ result # Panicked
        /\ \A n \in DOMAIN nodes :
              /\ nodes[n].x >= 0 /\ nodes[n].y >= 0 /\ nodes[n].layer >= 0
              /\ nodes[n].is_connector => nodes[n].layer >= 1
        /\ AfterOrdering => \A n \in DOMAIN nodes : nodes[n].layer \in DOMAIN layers
        /\ (pc = "render" \/ Drawn) =>
              /\ ~render_underflows(nodes, layers, labels)
              /\ LET w == total_width(nodes)
                     h == total_height(nodes)
                 IN \A c \in render_cells(nodes, layers, labels) :
                       c[1] \in 0..(w - 1) /\ c[2] \in 0..(h - 1)

NoPanicWitness ==
    /\ Drawn
    /\ \E l \in DOMAIN layers :
          layers[l].adapter.enabled /\ adapter_cells(layers[l].adapter) # {}

\* the bounds of the loops: leveling passes, relaxation rounds, router heights, and a
\* back-trace that never spins
StepBounds ==
    /\ (pc = "toposort" \/ result = CycleFound) => iter <= VLen(nodes) * VLen(nodes) + 1
    /\ pc \in {"relax", "adapters", "route", "render"} => iter <= RelaxBound
    /\ router.height <= HeightCeiling + 1
    /\ pc # "spin"

\* C6: every call returns, and on the way leveling makes at most n*n+1 passes, the
\* relaxation at most 1000 rounds, the bus router tries no height above 31 and its
\* back-trace always finds a predecessor
Terminates == <>(pc = "done") /\ []StepBounds

TerminatesWitness ==
    /\ Drawn
    /\ iter = RelaxBound
    /\ \E n \in DOMAIN nodes : nodes[n].is_connector

\* C7: after leveling and completion every edge of the adjacency sets goes from a
\* layer to the next one, in every later phase
LayerInvariant ==
    AfterComplete =>
        \A a \in DOMAIN nodes :
            /\ \A b \in nodes[a].downward : nodes[b].layer = nodes[a].layer + 1
            /\ \A u \in nodes[a].upward : nodes[a].layer = nodes[u].layer + 1

LayerInvariantWitness ==
    /\ Drawn
    /\ \E n \in DOMAIN nodes : nodes[n].is_connector

\* C8: after row ordering the vertex sequence of every layer is a permutation of the
\* vertices leveling placed there, and the row of a vertex is its position, so the
\* rows of a layer are 0..size-1 without duplicates
RowInvariant ==
    AfterOrdering =>
        /\ \A n \in DOMAIN nodes : nodes[n].layer \in DOMAIN layers
        /\ \A l \in DOMAIN layers :
              LET s == layers[l].nodes
              IN /\ Range(s) = {n \in DOMAIN nodes : nodes[n].layer = l}
                 /\ Cardinality(Range(s)) = Len(s)
                 /\ \A i \in 1..Len(s) : nodes[s[i]].row = i - 1
                 /\ {nodes[n].row : n \in Range(s)} = 0..(Len(s) - 1)

RowInvariantWitness ==
    /\ Drawn
    /\ \E l \in DOMAIN layers :
          \E i \in 1..(Len(layers[l].nodes) - 1) : layers[l].nodes[i] > layers[l].nodes[i + 1]

\* C9: after geometry solving consecutive vertices of a layer do not overlap in x,
\* also when the relaxation loop stopped at its bound
NoOverlap ==
    AfterGeometry =>
        \A l \in DOMAIN layers :
            \A i \in 1..(Len(layers[l].nodes) - 1) :
                LET u == nodes[layers[l].nodes[i]]
                    v == nodes[layers[l].nodes[i + 1]]
                IN v.x >= u.x + u.width

\* C10: after geometry solving every direct edge lies in the padded interior span of
\* both of its endpoints
EdgesInSpan ==
    AfterGeometry =>
        \A l \in DOMAIN layers :
            \A i \in 1..Len(layers[l].edges) :
                LET e == layers[l].edges[i]
                IN \A v \in {e.up, e.down} :
                      /\ nodes[v].x + nodes[v].padding <= e.x
                      /\ e.x <= nodes[v].x + nodes[v].width - 1 - nodes[v].padding

\* the phases after resolve_crossings
AfterCrossing == pc \in {"layout", "relax", "adapters", "route", "render"} \/ Drawn

\* C11: from crossing resolution onward no layer has both a bus and direct edges
BusOrEdges ==
    AfterCrossing =>
        \A l \in DOMAIN layers : ~(layers[l].adapter.enabled /\ layers[l].edges # <<>>)

BusOrEdgesWitness ==
    /\ Drawn
    /\ \E l \in DOMAIN layers : layers[l].adapter.enabled /\ layers[l].edges = <<>>
    /\ \E l \in DOMAIN layers : ~layers[l].adapter.enabled /\ layers[l].edges # <<>>

\* C12: for "A -> B -> C\nA -> D -> C" no layer has a bus after crossing resolution, and
\* both bands between the three layers have their direct edges
Test1Direct ==
    (input = TestText1 /\ AfterCrossing) =>
        /\ VLen(layers) = 3
        /\ \A l \in DOMAIN layers : ~layers[l].adapter.enabled
        /\ Len(layers[0].edges) = 2 /\ Len(layers[1].edges) = 2

Test1DirectWitness == input = TestText1 /\ Drawn /\ VLen(layers) = 3

\* the layer above the vertex with the label name
LayerAbove(name) == nodes[id[name]].layer - 1

\* C13 as stated: for "A -> C\nA -> D -> C\nB -> D\nE -> C" the layer feeding into C has
\* a bus after crossing resolution
Test4Bus ==
    (input = TestText4 /\ AfterCrossing) => layers[LayerAbove(<<"C">>)].adapter.enabled

\* C13 amended: for that input the row ordering leaves no order mismatch, so no layer
\* has a bus and the layer feeding into C keeps its three direct edges
Test4Direct ==
    (input = TestText4 /\ AfterCrossing) =>
        /\ \A l \in DOMAIN layers : ~layers[l].adapter.enabled
        /\ Len(layers[LayerAbove(<<"C">>)].edges) = 3

Test4DirectWitness ==
    /\ input = TestText4
    /\ Drawn
    /\ \E n \in DOMAIN nodes : nodes[n].is_connector

\* the rows of the grid of the doc example of dag_to_text
DocGrid ==
    LET tl == CornerTL  tr == CornerTR  bl == CornerBL  br == CornerBR
        h == HLine  v == VLine  t == TeeDown  a == ArrowDown  o == Blank
    IN <<tl, h, h, h, tr, tl, h, h, h, tr, o, o, "\n",
         v, o, "A", o, v, v, o, "D", o, v, o, o, "\n",
         bl, t, h, h, br, bl, t, h, t, br, o, o, "\n",
         tl, a, h, h, tr, o, v, tl, a, h, h, tr, "\n",
         v, o, "B", o, v, o, v, v, o, "E", o, v, "\n",
         bl, t, h, h, br, o, v, bl, h, h, h, br, "\n",
         tl, a, h, h, h, h, a, h, tr, o, o, o, "\n",
         v, o, o, o, "C", o, o, o, v, o, o, o, "\n",
         bl, h, h, h, h, h, h, h, br, o, o, o, "\n">>

\* the labels of the vertices of layer l in row order
LayerLabels(l) == [i \in 1..Len(layers[l].nodes) |-> labels[layers[l].nodes[i]]]

\* C14: the doc example returns the grid of the doc comment, 9 rows of 12 columns:
\* layer 0 is A, D, layer 1 is B, the connector of D -> C, E, and C is 9 columns wide
\* with its incoming edges at the columns 1 and 6
DocExample ==
    (input = DocText /\ pc = "done") =>
        /\ result = Ok(DocGrid)
        /\ LayerLabels(0) = <<<<"A">>, <<"D">>>>
        /\ LayerLabels(1) = <<<<"B">>, ConnectorLabel, <<"E">>>>
        /\ nodes[layers[1].nodes[2]].is_connector
        /\ nodes[layers[1].nodes[2]].upward = {id[<<"D">>]}
        /\ nodes[layers[1].nodes[2]].downward = {id[<<"C">>]}
        /\ nodes[id[<<"C">>]].width = 9
        /\ {layers[1].edges[i].x - nodes[id[<<"C">>]].x : i \in 1..Len(layers[1].edges)} = {1, 6}

DocExampleWitness == input = DocText /\ pc = "done" /\ Len(result.text) = 9 * 13

\* two edges of es whose parents and children are in opposite row orders
Inverted(ns, es) ==
    \E i, j \in 1..Len(es) :
        /\ ns[es[i].up].row < ns[es[j].up].row
        /\ ns[es[i].down].row > ns[es[j].down].row

\* C15: the step of crossing resolution gives a layer a bus, and clears its direct
\* edges, exactly when two of its edges are inverted; every other layer keeps its edges
CrossingRule ==
    [][pc = "resolve_crossings" =>
        \A l \in DOMAIN layers :
            /\ layers'[l].adapter.enabled <=> Inverted(nodes, layers[l].edges)
            /\ ~Inverted(nodes, layers[l].edges) => layers'[l].edges = layers[l].edges]_vars

CrossingRuleWitness ==
    /\ pc = "layout"
    /\ \E l \in DOMAIN layers : layers[l].adapter.enabled
    /\ \E l \in DOMAIN layers : ~layers[l].adapter.enabled /\ layers[l].edges # <<>>


\* the level of a in the graph p that parse registered: the length of the longest
\* path that ends in a
RECURSIVE Depth(_, _)
Depth(p, a) ==
    IF p[a].upward = {} THEN 0 ELSE 1 + SetMax({Depth(p, u) : u \in p[a].upward})

\* the connectors met from c downwards, while they are connectors with exactly one
\* downward neighbour (at most fuel of them)
RECURSIVE ChainBelow(_, _, _)
ChainBelow(ns, c, fuel) ==
    IF fuel = 0 \/ ~ns[c].is_connector \/ Cardinality(ns[c].downward) # 1 THEN <<>>
    ELSE <<c>> \o ChainBelow(ns, CHOOSE d \in ns[c].downward : TRUE, fuel - 1)

\* from c on, k - 1 vertices that parse did not register stand for the edge (a, b):
\* one in each layer between a and b, each linked to the one before and the one after
IsChain(ns, old, a, b, c, k) ==
    LET ch == ChainBelow(ns, c, VLen(ns))
        at(i) == IF i = 0 THEN a ELSE IF i = k THEN b ELSE ch[i]
    IN /\ Len(ch) = k - 1
       /\ \A i \in 1..(k - 1) :
            /\ ch[i] \notin old
            /\ ns[ch[i]].layer = ns[a].layer + i
            /\ ns[ch[i]].upward = {at(i - 1)}
            /\ ns[ch[i]].downward = {at(i + 1)}
       /\ ch[k - 1] \in ns[b].upward

\* the edges of the leveled graph that span more than one layer
LongEdges(p) ==
    {e \in (DOMAIN p) \X (DOMAIN p) :
        e[2] \in p[e[1]].downward /\ Depth(p, e[2]) - Depth(p, e[1]) > 1}

\* the connectors that the edges E of the leveled graph need: span - 1 for each
RECURSIVE ConnectorsFor(_, _)
ConnectorsFor(p, E) ==
    IF E = {} THEN 0
    ELSE LET e == CHOOSE x \in E : TRUE
         IN Depth(p, e[2]) - Depth(p, e[1]) - 1 + ConnectorsFor(p, E \ {e})

\* C16: after completion every vertex that parse registered is at its level and is no
\* connector; every edge (a, b) spanning k > 1 layers is gone and a chain of exactly
\* k - 1 new connectors in the layers between stands for it; every edge spanning one
\* layer is still there; and there is no other vertex and no other adjacency
CompletionChains ==
    (AfterComplete /\ ~HasCycle(Parsed)) =>
        LET p == Parsed
            k(a, b) == Depth(p, b) - Depth(p, a)
        IN /\ VLen(nodes) = VLen(p) + ConnectorsFor(p, LongEdges(p))
           /\ \A a \in DOMAIN p :
                /\ nodes[a].layer = Depth(p, a)
                /\ ~nodes[a].is_connector
                /\ Cardinality(nodes[a].downward) = Cardinality(p[a].downward)
                /\ Cardinality(nodes[a].upward) = Cardinality(p[a].upward)
           /\ \A c \in DOMAIN nodes \ DOMAIN p :
                /\ nodes[c].is_connector
                /\ Cardinality(nodes[c].upward) = 1
                /\ Cardinality(nodes[c].downward) = 1
           /\ \A a \in DOMAIN p : \A b \in p[a].downward :
                IF k(a, b) = 1
                THEN b \in nodes[a].downward /\ a \in nodes[b].upward
                ELSE /\ b \notin nodes[a].downward
                     /\ a \notin nodes[b].upward
                     /\ \E c \in nodes[a].downward :
                            IsChain(nodes, DOMAIN p, a, b, c, k(a, b))
           /\ \A x, y \in DOMAIN nodes :
                y \in nodes[x].downward <=> x \in nodes[y].upward

CompletionChainsWitness ==
    /\ pc = "build_layers"
    /\ \E e \in LongEdges(Parsed) : Depth(Parsed, e[2]) - Depth(Parsed, e[1]) >= 3
    /\ \E a \in DOMAIN Parsed : \E b \in Parsed[a].downward :
            Depth(Parsed, b) - Depth(Parsed, a) = 1 /\ b \in nodes[a].downward


\* names to register: registered ones, new ones, and the label of the connectors
ProbeNames == {<<"A">>, <<"B", "B">>, <<"Z">>, ConnectorLabel}

\* what one insertion does to the registry as it stands: a registered name and a
\* present edge change nothing, any other name is appended at the index that is the
\* number of vertices before, with padding 1 and without neighbours
RegistryInsert ==
    /\ VLen(labels) = VLen(nodes)
    /\ \A name \in DOMAIN id : id[name] \in DOMAIN nodes /\ labels[id[name]] = name
    /\ \A name \in DOMAIN id : add_node(Ctx, name) = Ctx
    /\ \A a \in DOMAIN id : \A b \in DOMAIN id :
            id[b] \in nodes[id[a]].downward => add_vertex(Ctx, a, b) = Ctx
    /\ \A name \in ProbeNames \ DOMAIN id :
            LET c == add_node(Ctx, name)
                n == VLen(nodes)
            IN /\ VLen(c.nodes) = n + 1
               /\ VLen(c.labels) = n + 1
               /\ DOMAIN c.id = DOMAIN id \cup {name}
               /\ c.id[name] = n
               /\ c.labels[n] = name
               /\ c.nodes[n] = [DefaultNode EXCEPT !.padding = 1]
               /\ \A i \in DOMAIN nodes : c.nodes[i] = nodes[i] /\ c.labels[i] = labels[i]
               /\ \A k \in DOMAIN id : c.id[k] = id[k]

\* C17: inserting a registered name or a present edge leaves the registry as it is,
\* any other name is appended at index = the number of vertices before; and no step
\* of process, the splicing of connectors included, changes the index or the label of
\* a vertex that exists
RegistryStable ==
    [][/\ RegistryInsert
       /\ \A i \in DOMAIN labels : i \in DOMAIN labels' /\ labels'[i] = labels[i]
       /\ \A i \in DOMAIN nodes :
            i \in DOMAIN nodes' /\ nodes'[i].is_connector = nodes[i].is_connector
       /\ \A name \in DOMAIN id : name \in DOMAIN id' /\ id'[name] = id[name]]_vars

RegistryStableWitness ==
    /\ pc = "build_layers"
    /\ \E c \in DOMAIN nodes : nodes[c].is_connector
    /\ \E name \in DOMAIN id : Cardinality(Parsed[id[name]].downward) >= 2
    /\ ProbeNames \ DOMAIN id # {}
    /\ ProbeNames \cap DOMAIN id # {}


\* a step of RouteConnector that routes the connection router.connector in the trial
\* that is going on
RoutesOne ==
    /\ pc = "route"
    /\ router.connector <= router.len
    /\ router'.height = router.height
    /\ router'.connector = router.connector + 1

\* C18: within one height trial the routing of a connection leaves every edge that an
\* earlier connection claimed with that connection, and claims for itself only edges
\* that no connection had
NoReclaim ==
    [][RoutesOne =>
        \A e \in DOMAIN router.assigned :
            IF router.assigned[e] # 0
            THEN router'.assigned[e] = router.assigned[e]
            ELSE router'.assigned[e] \in {0, router.connector}]_vars

NoReclaimWitness ==
    /\ pc = "route"
    /\ router.connector >= 3
    /\ \E e \in DOMAIN router.assigned : router.assigned[e] = 1
    /\ \E e \in DOMAIN router.assigned : router.assigned[e] = 2


\* the steps of Adapter::construct: the first trial, a trial that fails, an acceptance
StartsRouting == pc = "adapters" /\ pc' = "route"
NextTrial == pc = "route" /\ pc' = "route" /\ router'.height # router.height
Accepts == pc = "route" /\ pc' = "adapters"

\* the buses that construct is done with
Solved ==
    {l \in DOMAIN layers :
        /\ layers[l].adapter.enabled
        /\ \/ pc \in {"adapters", "route"} /\ l < ly
           \/ pc = "render"
           \/ Drawn}

\* C20: the first trial of a bus has height 3; a trial routes the connections in the
\* order 1, 2, ...; only a trial of height at most 30 in which a connection is left
\* gives way to a trial, and that trial is one row taller and starts with connection 1
\* and no claimed edge; a trial in which every connection is routed is accepted at its
\* height, and so is a trial of height 31 whatever it routed; so every solved bus has a
\* height in 3..31, and the routing never ends in an error
HeightLoop ==
    [][/\ StartsRouting => router'.height = FirstHeight /\ router'.connector = 1
       /\ pc = "route" =>
            /\ router.height \in FirstHeight..(HeightCeiling + 1)
            /\ router.connector \in 1..(router.len + 1)
            /\ pc' \in {"route", "adapters"}
            /\ pc' = "route" /\ router'.height = router.height =>
                    router'.connector = router.connector + 1 /\ router'.len = router.len
            /\ router.connector > router.len => Accepts
       /\ NextTrial =>
            /\ router.connector <= router.len
            /\ router.height <= HeightCeiling
            /\ router'.height = router.height + 1
            /\ router'.connector = 1
            /\ router'.len = router.len
            /\ \A e \in DOMAIN router'.assigned : router'.assigned[e] = 0
       /\ Accepts =>
            /\ router.connector > router.len \/ router.height = HeightCeiling + 1
            /\ layers'[ly].adapter.height = router.height
            /\ VLen(layers'[ly].adapter.rendering) = router.height
       /\ \A l \in Solved :
            layers[l].adapter.height \in FirstHeight..(HeightCeiling + 1)
       /\ result # Panicked]_vars

HeightLoopWitness ==
    /\ Drawn
    /\ \E l \in DOMAIN layers :
            layers[l].adapter.enabled /\ layers[l].adapter.height = HeightCeiling + 1
    /\ \E l \in DOMAIN layers :
            layers[l].adapter.enabled /\ layers[l].adapter.height \in 4..HeightCeiling


\* the nodes of the routing graph that the edges E touch, and how many edges of E
\* touch the node n
Touched(w, h, E) == {edge_a(w, h, e) : e \in E} \cup {edge_b(w, h, e) : e \in E}
Degree(w, h, E, n) == Cardinality({e \in E : edge_a(w, h, e) = n \/ edge_b(w, h, e) = n})

\* the nodes reached from the nodes R along edges of E, in at most fuel rounds
RECURSIVE ReachedBy(_, _, _, _, _)
ReachedBy(w, h, E, R, fuel) ==
    LET more == R \cup {edge_a(w, h, e) : e \in {f \in E : edge_b(w, h, f) \in R}}
                  \cup {edge_b(w, h, e) : e \in {f \in E : edge_a(w, h, f) \in R}}
    IN IF fuel = 0 \/ more = R THEN R ELSE ReachedBy(w, h, E, more, fuel - 1)

\* the edges E are one connected path from a node of start to a node of end
IsPath(w, h, E, start, end) ==
    \E s \in start : \E t \in end :
        /\ Degree(w, h, E, s) = 1
        /\ Degree(w, h, E, t) = 1
        /\ \A n \in Touched(w, h, E) \ {s, t} : Degree(w, h, E, n) = 2
        /\ ReachedBy(w, h, E, {s}, Cardinality(E)) = Touched(w, h, E)

\* the total weight of the edges E
RECURSIVE WeightOf(_, _)
WeightOf(weight, E) ==
    IF E = {} THEN 0
    ELSE LET e == CHOOSE x \in E : TRUE IN weight[e] + WeightOf(weight, E \ {e})

\* one round of relaxation of the distances d over the edges in free
Relaxed(w, h, free, weight, d) ==
    [n \in DOMAIN d |->
        LET es == {e \in Range(node_edges(w, h, n)) : e \in free}
        IN SetMin({d[n]} \cup {d[other_end(w, h, e, n)] + weight[e] : e \in es})]

\* the least total weight of a path over edges in free from the nodes with d = 0,
\* BIG where there is none: relaxation up to its fixed point
RECURSIVE Distance(_, _, _, _, _, _)
Distance(w, h, free, weight, d, fuel) ==
    Bind(Relaxed(w, h, free, weight, d), LAMBDA r :
        IF fuel = 0 \/ r = d THEN d ELSE Distance(w, h, free, weight, r, fuel - 1))

\* the edges that the trial has given to the connection k
PathOf(g, k) == {e \in DOMAIN g.assigned : g.assigned[e] = k}

\* C19: the edges that the routing of a connection k claims are free edges that form
\* one connected path from the top cell of the vertical lane of a column with k among
\* its inputs to the bottom cell of the vertical lane of a column with k among its
\* outputs, and no path over the free edges from such a top cell to such a bottom cell
\* weighs less; when a trial of height at most 30 is accepted, the edges of every
\* connection 1..max id form such a path
RoutedPaths ==
    [][LET w == VLen(layers[ly].adapter.inputs)
           h == router.height
           starts(k) == start_set(w, h, layers[ly].adapter.inputs, k)
           ends(k) == end_set(w, h, layers[ly].adapter.outputs, k)
           free == {e \in DOMAIN router.assigned : router.assigned[e] = 0}
           d == Distance(w, h, free, router.weight,
                         [n \in 0..(w * h * 2 - 1) |->
                             IF n \in starts(router.connector) THEN 0 ELSE BIG],
                         w * h * 2)
       IN /\ RoutesOne =>
                /\ PathOf(router', router.connector) \subseteq free
                /\ IsPath(w, h, PathOf(router', router.connector),
                          starts(router.connector), ends(router.connector))
                /\ WeightOf(router.weight, PathOf(router', router.connector))
                     = SetMin({d[t] : t \in ends(router.connector)})
                /\ WeightOf(router.weight, PathOf(router', router.connector)) < BIG
          /\ (Accepts /\ router.height <= HeightCeiling) =>
                \A k \in 1..router.len : IsPath(w, h, PathOf(router, k), starts(k), ends(k))
      ]_vars

RoutedPathsWitness ==
    /\ pc = "route"
    /\ router.connector > router.len
    /\ router.height <= HeightCeiling
    /\ router.len >= 3
    /\ \E k \in 1..router.len : \E e \in PathOf(router, k) :
            IndexL(VLen(layers[ly].adapter.inputs), router.height, e) = 1
    /\ \E e \in DOMAIN router.weight :
            router.weight[e] = PenaltyWeight /\ router.assigned[e] # 0


\* the edge e is in the edge lists of both nodes it joins
InGraph(w, h, e) ==
    /\ e \in Range(node_edges(w, h, edge_a(w, h, e)))
    /\ e \in Range(node_edges(w, h, edge_b(w, h, e)))

\* the vertical edges join each cell to the one below, the corner edges join the two
\* lanes of every cell, and no edge that is not in the graph is claimed
LanesBut(w, h) ==
    /\ \A x \in 0..(w - 1) : \A y \in 0..(h - 1) :
        /\ InGraph(w, h, index(w, h, x, y, 0)) <=> y # h - 1
        /\ y # h - 1 =>
              /\ edge_a(w, h, index(w, h, x, y, 0)) = index(w, h, x, y, 0)
              /\ edge_b(w, h, index(w, h, x, y, 0)) = index(w, h, x, y + 1, 0)
        /\ InGraph(w, h, index(w, h, x, y, 2))
        /\ edge_a(w, h, index(w, h, x, y, 2)) = index(w, h, x, y, 0)
        /\ edge_b(w, h, index(w, h, x, y, 2)) = index(w, h, x, y, 1)
    /\ \A e \in DOMAIN router.assigned : router.assigned[e] # 0 => InGraph(w, h, e)

\* C21 as stated: in the grid of a trial the horizontal edges are only in the rows
\* 2..h-2, a vertical edge joins every two cells one above the other, and every cell
\* has a corner edge
LanesAsStated ==
    pc = "route" =>
        LET w == VLen(layers[ly].adapter.inputs)
            h == router.height
        IN /\ LanesBut(w, h)
           /\ \A x \in 0..(w - 1) : \A y \in 0..(h - 1) :
                InGraph(w, h, index(w, h, x, y, 1)) => y >= 2 /\ y <= h - 2

\* C21 amended: in the grid of a trial the horizontal edges are only in the rows
\* 1..h-3 (all rows but the top one and the bottom two), there from every column but
\* the last to the next column; a vertical edge joins every two cells one above the
\* other, and every cell has a corner edge
LaneRows ==
    pc = "route" =>
        LET w == VLen(layers[ly].adapter.inputs)
            h == router.height
        IN /\ LanesBut(w, h)
           /\ \A x \in 0..(w - 1) : \A y \in 0..(h - 1) :
                /\ InGraph(w, h, index(w, h, x, y, 1)) <=>
                        (y >= 1 /\ y <= h - 3 /\ x # w - 1)
                /\ InGraph(w, h, index(w, h, x, y, 1)) =>
                        /\ edge_a(w, h, index(w, h, x, y, 1)) = index(w, h, x, y, 1)
                        /\ edge_b(w, h, index(w, h, x, y, 1)) = index(w, h, x + 1, y, 1)

LaneRowsWitness ==
    /\ pc = "route"
    /\ router.height = 5
    /\ LET w == VLen(layers[ly].adapter.inputs)
       IN /\ \E x \in 0..(w - 1) : router.assigned[index(w, 5, x, 1, 1)] # 0
          /\ \E x \in 0..(w - 1) : router.assigned[index(w, 5, x, 2, 1)] # 0


\* the pass k applied to the layout as it stands, and applied once more to what it gave
Once(k) == relax_pass(k, nodes, layers)
Twice(k) == Bind(Once(k), LAMBDA o : relax_pass(k, o.nodes, o.layers))

\* the second application of the pass k changes nothing and says so
Idempotent(k) ==
    Bind(Once(k), LAMBDA o : Bind(Twice(k), LAMBDA t :
        t.nodes = o.nodes /\ t.layers = o.layers /\ t.stable))

\* how many vertices and how many edges differ between the layout and the result o
\* of a pass
ChangedNodes(o) == Cardinality({n \in DOMAIN nodes : o.nodes[n] # nodes[n]})
ChangedEdges(o) ==
    Cardinality({t \in EdgeEnds(layers) :
                    t[3] = 0 /\ o.layers[t[1]].edges[t[2]] # layers[t[1]].edges[t[2]]})

\* the pass k reports no change exactly when it left the layout as it was
Honest(k) == Bind(Once(k), LAMBDA o : o.stable <=> (o.nodes = nodes /\ o.layers = layers))

\* the pass k changed at most one vertex or edge
OneChange(k) == Bind(Once(k), LAMBDA o : ChangedNodes(o) + ChangedEdges(o) <= 1)

\* C22 as stated: each of the five passes, applied twice in a row to a layout of the
\* relaxation loop, gives what one application gives, and the second reports no change
PassesIdempotent == pc = "relax" => \A k \in 1..5 : Idempotent(k)

\* C22 amended: the two no-overlap passes are idempotent; grow on demand, shift edges
\* and shift connectors change one vertex or one edge, the first in the order of their
\* loops, and report a change, so that their second application may change another;
\* a pass reports no change exactly when it left the layout as it was
PassesSettle ==
    pc = "relax" =>
        /\ Idempotent(1)
        /\ Idempotent(2)
        /\ \A k \in 1..5 : Honest(k)
        /\ \A k \in 3..5 : OneChange(k)

PassesSettleWitness ==
    /\ pc = "relax"
    /\ ~Once(1).stable
    /\ \E k \in 3..5 : ~Idempotent(k)
    /\ \E k \in 3..5 : Once(k).stable


\* C23: after geometry solving the direct edges of a layer have different x, and their
\* x increase in the order of the layer's edge list
EdgesApart ==
    AfterGeometry =>
        \A l \in DOMAIN layers : \A i \in 1..Len(layers[l].edges) :
            \A j \in (i + 1)..Len(layers[l].edges) :
                layers[l].edges[i].x < layers[l].edges[j].x

\* the states in which the vertices have their sizes: from the initial sizing onward
Sized == pc \in {"relax", "adapters", "route", "render"} \/ Drawn

Slack(n) == nodes[n].width - Len(labels[n])

\* the columns left of and right of the label of n as draw_text_in_box_center places it
Margins(n) == center_margin(nodes[n].width, labels[n])
LeftMargin(n) == (CHOOSE m \in Margins(n) : TRUE).margin
RightMargin(n) == nodes[n].width - Len(labels[n]) - LeftMargin(n)

\* C24: in the initial sizing and after every grow step, a vertex that is no connector
\* has width - label length even and at least 4, so its centered label has equal left
\* and right margins and leaves a column free next to each border
LabelFits ==
    Sized =>
        \A n \in DOMAIN nodes :
            ~nodes[n].is_connector =>
                /\ Slack(n) % 2 = 0
                /\ Slack(n) >= 4
                /\ \A m \in Margins(n) : m.kind = "at"
                /\ LeftMargin(n) = RightMargin(n)
                /\ LeftMargin(n) >= 2

\* a relaxation round finds a vertex wider than its initial size: a grow step has acted
LabelFitsWitness ==
    /\ pc = "relax"
    /\ iter > 0
    /\ \E n \in DOMAIN nodes :
           /\ ~nodes[n].is_connector
           /\ nodes[n].width > initial_width(Len(labels[n]), Cardinality(nodes[n].upward),
                                             Cardinality(nodes[n].downward))

\* the states after the y assignment
AfterY == pc = "render" \/ Drawn

\* the y of the first vertex of the layer l
LayerY(l) == nodes[layers[l].nodes[1]].y

\* C25: after the y assignment the vertices of a layer share one y, layer 0 is at y = 0,
\* the next layer is 3 rows lower when the layer has no bus and bus.height rows lower
\* when it has one, and the bus and the direct edges of a layer are at its y + 2
YRule ==
    AfterY =>
        /\ LayerY(0) = 0
        /\ \A l \in DOMAIN layers :
               /\ \A n \in Range(layers[l].nodes) : nodes[n].y = LayerY(l)
               /\ \A i \in 1..Len(layers[l].edges) : layers[l].edges[i].y = LayerY(l) + 2
               /\ layers[l].adapter.enabled => layers[l].adapter.y = LayerY(l) + 2
               /\ l + 1 \in DOMAIN layers =>
                      LayerY(l + 1) - LayerY(l) =
                          IF layers[l].adapter.enabled THEN layers[l].adapter.height ELSE 3

\* y positions are assigned to a layer with a bus higher than 3 rows that has a layer
\* under it, and to a layer with direct edges between two vertices each side
YRuleWitness ==
    /\ AfterY
    /\ \E l \in DOMAIN layers :
           /\ layers[l].adapter.enabled
           /\ layers[l].adapter.height > 3
           /\ l + 1 \in DOMAIN layers
           /\ Len(layers[l + 1].nodes) > 1
    /\ \E l \in DOMAIN layers : Len(layers[l].edges) > 0 /\ l > 0

\* no swap of two positions of the permutation p of the layer lnodes has a lower score
LocalOptimum(ns, lnodes, p) ==
    \A a \in DOMAIN p : \A b \in DOMAIN p :
        a < b => ~score_less(ns, lnodes, swap(p, a, b), p)

\* the step that commits the row order of the layer ly, and the step that starts its search
Commits == pc = "optimize" /\ ly \in DOMAIN layers /\ perm # <<>> /\ perm' = <<>>
StartsSearch == pc = "optimize" /\ perm = <<>> /\ perm' # <<>>

\* the permutation that takes the nodes of the layer ly to their committed order
CommittedPerm ==
    [i \in 0..(Len(layers[ly].nodes) - 1) |->
        CHOOSE k \in 0..(Len(layers[ly].nodes) - 1) :
            layers[ly].nodes[k + 1] = layers'[ly].nodes[i + 1]]

\* C26: the row order committed for a layer of width w > 1 is a local optimum of the
\* score, no swap of two positions of the committed permutation lowers the score, and
\* the search starts from the identity permutation
RowOrderOptimal ==
    [][/\ Commits =>
            /\ Len(layers[ly].nodes) > 1
            /\ Range(layers'[ly].nodes) = Range(layers[ly].nodes)
            /\ LocalOptimum(nodes, layers[ly].nodes, CommittedPerm)
       /\ StartsSearch =>
            /\ Len(layers[ly].nodes) > 1
            /\ perm' = identity_perm(Len(layers[ly].nodes))]_vars

\* the search of a layer of three or more vertices has left the identity and is at a
\* permutation that the next sweep cannot improve: the order about to be committed
RowOrderOptimalWitness ==
    /\ pc = "optimize"
    /\ perm # <<>>
    /\ VLen(perm) >= 3
    /\ perm # identity_perm(VLen(perm))
    /\ ~sweep(nodes, layers[ly].nodes, perm).improved

\* leveling has ended and completion has added no connector yet
Leveled == pc = "complete" /\ VLen(nodes) = VLen(Parsed)

\* C27: for an acyclic input leveling ends, whatever the order of the visits, with every
\* vertex in the layer that is the number of edges of the longest path ending at it: a
\* vertex without parents is in layer 0, one in layer k > 0 has a parent in layer k - 1
LeastLevels ==
    (Leveled /\ ~HasCycle(Parsed)) =>
        \A v \in DOMAIN nodes :
            /\ nodes[v].layer = Depth(Parsed, v)
            /\ nodes[v].upward = {} => nodes[v].layer = 0
            /\ nodes[v].layer > 0 =>
                   \E u \in nodes[v].upward : nodes[u].layer = nodes[v].layer - 1

\* leveling ends for a vertex with parents in different layers and a vertex with one
\* parent that has several children
LeastLevelsWitness ==
    /\ Leveled
    /\ \E v \in DOMAIN nodes : \E u1 \in nodes[v].upward : \E u2 \in nodes[v].upward :
           nodes[u1].layer < nodes[u2].layer
    /\ \E a \in DOMAIN nodes : Cardinality(nodes[a].downward) > 1

\* the indexes that the label-to-index map holds
Registered == {id[k] : k \in DOMAIN id}

\* C28: from its creation on a connector has exactly one upward and one downward
\* neighbour and padding 0 and is not in the label-to-index map, and from the initial
\* sizing on its width is 1, whatever geometry solving does
ConnectorShape ==
    \A c \in DOMAIN nodes :
        nodes[c].is_connector =>
            /\ Cardinality(nodes[c].upward) = 1
            /\ Cardinality(nodes[c].downward) = 1
            /\ nodes[c].padding = 0
            /\ c \notin Registered
            /\ Sized => nodes[c].width = 1

\* a relaxation round that has moved a connector standing over another connector, next
\* to a vertex that has grown
ConnectorShapeWitness ==
    /\ pc = "relax"
    /\ iter > 0
    /\ \E c \in DOMAIN nodes :
           /\ nodes[c].is_connector
           /\ nodes[c].x > 0
           /\ \E d \in nodes[c].downward : nodes[d].is_connector
    /\ \E n \in DOMAIN nodes :
           /\ ~nodes[n].is_connector
           /\ nodes[n].width > initial_width(Len(labels[n]), Cardinality(nodes[n].upward),
                                             Cardinality(nodes[n].downward))

\* the larger of the numbers of upward and of downward neighbours of n
Connections(n) == Max(Cardinality(nodes[n].upward), Cardinality(nodes[n].downward))

\* C29: throughout geometry solving a vertex that is no connector has at least as many
\* interior columns as connections on either side: width - 2 >= max(in-degree,
\* out-degree)
ColumnsSuffice ==
    Sized =>
        \A n \in DOMAIN nodes :
            ~nodes[n].is_connector => nodes[n].width - 2 >= Connections(n)

\* a vertex of a layer with a bus has more connections into the bus than its label and
\* the margin need columns, so that its width comes from its connections
ColumnsSufficeWitness ==
    /\ Sized
    /\ \E l \in DOMAIN layers : \E n \in DOMAIN nodes :
           /\ layers[l].adapter.enabled
           /\ ~nodes[n].is_connector
           /\ Connections(n) > Len(labels[n]) + 2
           /\ \/ n \in Range(layers[l].nodes) /\ Cardinality(nodes[n].downward) = Connections(n)
              \/ /\ l + 1 \in DOMAIN layers
                 /\ n \in Range(layers[l + 1].nodes)
                 /\ Cardinality(nodes[n].upward) = Connections(n)

\* the last step of the relaxation loop is a round in which no pass changed anything
ConvergedEnd == pc = "relax" /\ pc' = "adapters" /\ nodes' = nodes /\ layers' = layers

\* the direct edges that touch the connector c, as <<layer, index>>
EdgesOf(c) ==
    {t \in UNION {{<<l, i>> : i \in 1..Len(layers[l].edges)} : l \in DOMAIN layers} :
        c \in {layers[t[1]].edges[t[2]].up, layers[t[1]].edges[t[2]].down}}

\* C30: when the relaxation loop ends with a round that changed nothing, every direct
\* edge that touches a connector has the x of the connector
EdgeOnConnector ==
    [][ConvergedEnd =>
          \A c \in DOMAIN nodes :
              nodes[c].is_connector =>
                  \A t \in EdgesOf(c) : layers'[t[1]].edges[t[2]].x = nodes'[c].x]_vars

\* the loop has ended at a fixpoint with a long edge that passes through two connectors
\* in a row, each with a direct edge above and below and moved to the right of column 0
EdgeOnConnectorWitness ==
    /\ pc = "adapters"
    /\ ly = 0
    /\ relax_round(nodes, layers).stable
    /\ \E c \in DOMAIN nodes : \E d \in DOMAIN nodes :
           /\ nodes[c].is_connector /\ nodes[d].is_connector
           /\ d \in nodes[c].downward
           /\ Cardinality(EdgesOf(c)) = 2
           /\ Cardinality(EdgesOf(d)) = 2
           /\ nodes[c].x > 0
           /\ nodes[d].x > 0

=============================================================================
